---------------------------- MODULE Spec2Model ----------------------------
(***************************************************************************)
(* Model of the query-understanding and matching core of toyama-chat       *)
(* (src/lib/pharmacy.ts): the CSV parser, the tag helpers, the query       *)
(* tokenizer, the condition extractor and the search.                      *)
(*                                                                         *)
(* A string is a sequence of characters; a character is a one-element      *)
(* TLA+ string.  Japanese characters are written in ASCII, one token for   *)
(* each character ("Zai", "Taku" for the two characters of the home-visit  *)
(* tag); the table of the tokens is given below.                           *)
(* A Row (Record<string,string>) is a sequence of <<key, value>> pairs     *)
(* with distinct keys, in the insertion order a JavaScript object keeps.   *)
(*                                                                         *)
(* The core is a set of pure functions.  The state of one invocation is    *)
(* the operation invoked (op), its input (arg), whether it has returned    *)
(* (done) and the value it returned (ret).                                 *)
(***************************************************************************)
EXTENDS Integers, Sequences, FiniteSets, TLC

VARIABLES op, arg, ret, done

vars == <<op, arg, ret, done>>

(***************************************************************************)
(* Generic helpers on sequences                                            *)
(***************************************************************************)
Range(s) == {s[i] : i \in 1..Len(s)}

Min(a, b) == IF a < b THEN a ELSE b

\* All sequences over S of length at most n.
SeqsUpTo(S, n) == UNION {[1..k -> S] : k \in 0..n}

RECURSIVE Concat(_)
Concat(ss) == IF ss = <<>> THEN <<>> ELSE Head(ss) \o Concat(Tail(ss))

\* parts joined with sep between them (Array.prototype.join)
RECURSIVE Join(_, _)
Join(parts, sep) ==
  IF parts = <<>> THEN <<>>
  ELSE IF Len(parts) = 1 THEN parts[1]
  ELSE parts[1] \o sep \o Join(Tail(parts), sep)

\* String.prototype.includes: w occurs in s as a contiguous substring.
Includes(s, w) ==
  \E i \in 0..(Len(s) - Len(w)) : SubSeq(s, i + 1, i + Len(w)) = w

(***************************************************************************)
(* Row: Record<string, string>                                             *)
(***************************************************************************)
Keys(row) == [i \in 1..Len(row) |-> row[i][1]]

HasKey(row, k) == \E i \in 1..Len(row) : row[i][1] = k

\* row[k] ?? ""
Get(row, k) ==
  IF HasKey(row, k)
  THEN row[CHOOSE i \in 1..Len(row) : row[i][1] = k][2]
  ELSE <<>>

\* obj[k] = v : an existing key keeps its position, a new key goes last.
SetKey(row, k, v) ==
  IF HasKey(row, k)
  THEN [i \in 1..Len(row) |-> IF row[i][1] = k THEN <<k, v>> ELSE row[i]]
  ELSE Append(row, <<k, v>>)

(***************************************************************************)
(* CSV parser (parseCsv)                                                   *)
(***************************************************************************)
QUOTE == "\""
COMMA == ","
LF == "\n"
CR == "\r"
SP == " "

\* The characters String.prototype.trim removes that the model's alphabets hold.
WhiteSpace == {SP, LF, CR, "FWSP"}

RECURSIVE TrimStart(_)
TrimStart(s) ==
  IF s # <<>> /\ Head(s) \in WhiteSpace THEN TrimStart(Tail(s)) ELSE s

RECURSIVE TrimEnd(_)
TrimEnd(s) ==
  IF s # <<>> /\ s[Len(s)] \in WhiteSpace
  THEN TrimEnd(SubSeq(s, 1, Len(s) - 1))
  ELSE s

\* String.prototype.trim
Trim(s) == TrimEnd(TrimStart(s))

\* s.replace(/^"|"$/g, "") : one leading and one trailing double quote go.
StripQuotes(s) ==
  LET s1 == IF s # <<>> /\ Head(s) = QUOTE THEN Tail(s) ELSE s
  IN  IF s1 # <<>> /\ s1[Len(s1)] = QUOTE
      THEN SubSeq(s1, 1, Len(s1) - 1)
      ELSE s1

\* v.trim().replace(/^"|"$/g, "") : trimmed first, quotes stripped second.
CleanValue(v) == StripQuotes(Trim(v))

\* cleanCell: quotes stripped first, trimmed second.
cleanCell(v) == Trim(StripQuotes(v))

\* Mutant of KeepRow: every terminated row is kept, a blank line too.
KeepRow_Always(row) == TRUE

\* The test that decides whether a terminated row is kept.
KeepRow(row) == Len(row) > 1 \/ (Len(row) = 1 /\ row[1] # <<>>)

\* The "\n" of a "\r\n" pair is skipped.
SkipLfAfterCr(text, i) == text[i] = LF /\ i > 1 /\ text[i - 1] = CR

\* The scanner's local variables before the first character.
ScanInit ==
  [rows |-> <<>>, currentRow |-> <<>>, currentField |-> <<>>, inQuotes |-> FALSE]

\* The body of the scanning loop from character i (1-based) to the end.
RECURSIVE Scan(_, _, _)
Scan(text, i, st) ==
  IF i > Len(text) THEN st
  ELSE
    LET ch == text[i] IN
    IF ch = QUOTE THEN
      IF st.inQuotes /\ i < Len(text) /\ text[i + 1] = QUOTE
      THEN Scan(text, i + 2,
                [st EXCEPT !.currentField = Append(@, QUOTE)])
      ELSE Scan(text, i + 1, [st EXCEPT !.inQuotes = ~@])
    ELSE IF ch = COMMA /\ ~st.inQuotes THEN
      Scan(text, i + 1,
           [st EXCEPT !.currentRow = Append(@, st.currentField),
                      !.currentField = <<>>])
    ELSE IF ch \in {LF, CR} /\ ~st.inQuotes THEN
      IF SkipLfAfterCr(text, i) THEN Scan(text, i + 1, st)
      ELSE
        LET row == Append(st.currentRow, st.currentField) IN
        Scan(text, i + 1,
             [st EXCEPT !.rows = IF KeepRow(row) THEN Append(@, row) ELSE @,
                        !.currentRow = <<>>,
                        !.currentField = <<>>])
    ELSE Scan(text, i + 1, [st EXCEPT !.currentField = Append(@, ch)])

\* Mutant of FlushLast: a row with no terminator after it is lost.
FlushLast_Never(st) == st.rows

\* The last field and row, when the text does not end with a terminator.
FlushLast(st) ==
  IF Len(st.currentField) > 0 \/ Len(st.currentRow) > 0
  THEN Append(st.rows, Append(st.currentRow, st.currentField))
  ELSE st.rows

\* rows: string[][] as parseCsv has it before the header is applied.
csvRows(text) == FlushLast(Scan(text, 1, ScanInit))

\* rows[0].map(h => h.trim().replace(/^"|"$/g, ""))
csvHeaders(rows) == [i \in 1..Len(rows[1]) |-> CleanValue(rows[1][i])]

\* cols[idx] ?? ""
ColAt(cols, idx) == IF idx <= Len(cols) THEN cols[idx] ELSE <<>>

\* Mutant of BuildRecord: the loop runs over the cells of the row, so a
\* column with no cell gets no key.
RECURSIVE BuildRecord_ByCols(_, _, _, _)
BuildRecord_ByCols(headers, cols, idx, obj) ==
  IF idx > Len(headers) \/ idx > Len(cols) THEN obj
  ELSE BuildRecord_ByCols(headers, cols, idx + 1,
                          SetKey(obj, headers[idx], CleanValue(cols[idx])))

\* headers.forEach((h, idx) => obj[h] = ...) from header idx on.
RECURSIVE BuildRecord(_, _, _, _)
BuildRecord(headers, cols, idx, obj) ==
  IF idx > Len(headers) THEN obj
  ELSE BuildRecord(headers, cols, idx + 1,
                   SetKey(obj, headers[idx], CleanValue(ColAt(cols, idx))))

parseCsv(text) ==
  LET rows == csvRows(text) IN
  IF Len(rows) = 0 THEN <<>>
  ELSE [i \in 1..(Len(rows) - 1) |->
          BuildRecord(csvHeaders(rows), rows[i + 1], 1, <<>>)]


(***************************************************************************)
(* parseCsv invoked on a text                                              *)
(***************************************************************************)
\* const records = parseCsv(text)
ParseCsvCall ==
  /\ op = "parseCsv"
  /\ ~done
  /\ ret' = parseCsv(arg.text)
  /\ done' = TRUE
  /\ UNCHANGED <<op, arg>>

NextCsv == ParseCsvCall

(***************************************************************************)
(* Inputs of parseCsv, 1: a header line followed by an arbitrary body      *)
(***************************************************************************)
MaxBodyLen == 6

CsvAlphabet == {"x", COMMA, QUOTE, SP, LF}

CsvHeaderLines == {<<"x">>, <<"x", COMMA, "y">>, <<"x", COMMA, "x">>}

InitCsvText ==
  /\ op = "parseCsv"
  /\ \E h \in CsvHeaderLines, body \in SeqsUpTo(CsvAlphabet, MaxBodyLen) :
       arg = [text |-> h \o <<LF>> \o body]
  /\ ret = <<>>
  /\ done = FALSE

SpecCsvText == InitCsvText /\ [][NextCsv]_vars

(***************************************************************************)
(* Inputs of parseCsv, 2: a table of cells serialized with RFC 4180        *)
(* quoting under a header row of plain column names                        *)
(***************************************************************************)
MaxCellLen == 1
MaxTableRows == 2
TableCols == 2

CellValues == SeqsUpTo(CsvAlphabet, MaxCellLen)

\* The column names of the table: TableCols plain, distinct names.
TableHeader == [c \in 1..TableCols |-> <<"h">> \o [j \in 1..c |-> "x"]]

\* Inner quotes doubled.
RECURSIVE DoubleQuotes(_)
DoubleQuotes(s) ==
  IF s = <<>> THEN <<>>
  ELSE (IF Head(s) = QUOTE THEN <<QUOTE, QUOTE>> ELSE <<Head(s)>>)
       \o DoubleQuotes(Tail(s))

\* A field, quoted.
QuoteField(s) == <<QUOTE>> \o DoubleQuotes(s) \o <<QUOTE>>

\* A row: its fields quoted and joined by commas.
SerializeRow(cells) ==
  Join([i \in 1..Len(cells) |-> QuoteField(cells[i])], <<COMMA>>)

\* A table: its rows, each ended by CRLF.
SerializeTable(rws) ==
  Concat([i \in 1..Len(rws) |-> SerializeRow(rws[i]) \o <<CR, LF>>])

InitCsvTable ==
  /\ op = "parseCsv"
  /\ \E nr \in 1..MaxTableRows :
       \E t \in [1..nr -> [1..TableCols -> CellValues]] :
         arg = [header |-> TableHeader,
                table |-> t,
                text |-> SerializeTable(<<TableHeader>> \o t)]
  /\ ret = <<>>
  /\ done = FALSE

SpecCsvTable == InitCsvTable /\ [][NextCsv]_vars

(***************************************************************************)
(* Inputs of parseCsv, 3: a header line, data lines, and blank lines       *)
(* after the last data line                                                *)
(***************************************************************************)
MaxDataRows == 2
MaxTrailingEols == 3

CsvDataLines ==
  { <<"x">>,
    <<"x", COMMA, "y">>,
    <<QUOTE, "x", LF, "y", QUOTE>>,
    <<COMMA>>,
    <<SP>>,
    <<QUOTE, QUOTE>> }

CsvLineHeaders == {<<"x">>, <<"x", COMMA, "y">>, <<QUOTE, QUOTE>>}

Eols == {<<LF>>, <<CR, LF>>}

\* n copies of s
RECURSIVE Repeat(_, _)
Repeat(s, n) == IF n = 0 THEN <<>> ELSE s \o Repeat(s, n - 1)

\* The text of a header line and data lines: eol between the lines, and
\* trailing eols after the last one (none: no final terminator; one: the last
\* line is terminated; more: blank lines follow).
LinesText(header, lines, eol, trailing) ==
  Join(<<header>> \o lines, eol) \o Repeat(eol, trailing)

InitCsvLines ==
  /\ op = "parseCsv"
  /\ \E h \in CsvLineHeaders, lines \in SeqsUpTo(CsvDataLines, MaxDataRows),
        eol \in Eols, trailing \in 0..MaxTrailingEols :
       arg = [header |-> h, lines |-> lines, eol |-> eol, trailing |-> trailing,
              text |-> LinesText(h, lines, eol, trailing)]
  /\ ret = <<>>
  /\ done = FALSE

SpecCsvLines == InitCsvLines /\ [][NextCsv]_vars

(***************************************************************************)
(* Claims on parseCsv                                                      *)
(***************************************************************************)

\* C1: a table serialized with RFC 4180 quoting parses back to records whose
\* cell values are exactly the original cell values, cell for cell.
C1_RoundTrip ==
  (op = "parseCsv" /\ done) =>
    /\ Len(ret) = Len(arg.table)
    /\ \A r \in 1..Min(Len(ret), Len(arg.table)) :
         \A c \in 1..Len(arg.header) :
           Get(ret[r], arg.header[c]) = arg.table[r][c]

\* A line that is one empty field, bare or quoted.
IsSingleEmptyField(line) == line = <<>> \/ line = <<QUOTE, QUOTE>>

\* C2 as stated: a header row followed by N data rows and any number of
\* blank lines yields exactly N records.
C2_RowCount ==
  (op = "parseCsv" /\ done) => Len(ret) = Len(arg.lines)

\* C2 amended: a header row followed by N data rows, none of them (header
\* included) a single empty field, and any number of empty lines after the
\* last data row yields exactly N records.
C2_RowCountNonEmptyRows ==
  (/\ op = "parseCsv" /\ done
   /\ ~IsSingleEmptyField(arg.header)
   /\ \A i \in 1..Len(arg.lines) : ~IsSingleEmptyField(arg.lines[i]))
  => Len(ret) = Len(arg.lines)

\* Witness of C2: two data rows, one holding a quoted line break, followed
\* by two blank lines after a CRLF, parsed into two records.
C2_Witness ==
  /\ op = "parseCsv" /\ done
  /\ arg.header = <<"x", COMMA, "y">>
  /\ arg.lines = <<<<QUOTE, "x", LF, "y", QUOTE>>, <<COMMA>>>>
  /\ arg.eol = <<CR, LF>>
  /\ arg.trailing = 3
  /\ Len(ret) = 2

\* C3: every cell value of every record is a trimmed string (it neither
\* starts nor ends with a whitespace character), and a column with no cell
\* in a row holds the empty string.
C3_Trimmed ==
  (op = "parseCsv" /\ done) =>
    /\ \A r \in 1..Len(ret) :
      \A k \in 1..Len(ret[r]) :
        LET v == ret[r][k][2] IN
        v = <<>> \/ (v[1] \notin WhiteSpace /\ v[Len(v)] \notin WhiteSpace)
    /\ LET rows == csvRows(arg.text) IN
       \A r \in 1..Len(ret) :
         \A idx \in (Len(rows[r + 1]) + 1)..Len(rows[1]) :
           Get(ret[r], csvHeaders(rows)[idx]) = <<>>

\* C4: every record has exactly the keys of the header row; the key of
\* header position idx holds the cleaned cell idx of the row, the empty
\* string when the row has no cell idx; cells past the header change nothing.
C4_ColumnMismatch ==
  (op = "parseCsv" /\ done) =>
    LET rows == csvRows(arg.text) IN
    Len(rows) > 0 =>
      LET headers == csvHeaders(rows) IN
      /\ Len(ret) = Len(rows) - 1
      /\ \A i \in 1..Len(ret) :
           LET cols == rows[i + 1] IN
           /\ Range(Keys(ret[i])) = Range(headers)
           /\ Len(ret[i]) = Cardinality(Range(headers))
           /\ \A idx \in 1..Len(headers) :
                (\A j \in (idx + 1)..Len(headers) : headers[j] # headers[idx])
                => Get(ret[i], headers[idx]) =
                     IF idx <= Len(cols) THEN CleanValue(cols[idx]) ELSE <<>>

\* Witness of C4: under a two-column header, one row with a single cell and
\* one row with three cells have been parsed.
C4_Witness ==
  /\ op = "parseCsv" /\ done
  /\ LET rows == csvRows(arg.text) IN
     /\ Len(rows) = 3
     /\ Len(rows[1]) = 2
     /\ Len(rows[2]) = 1
     /\ Len(rows[3]) = 3
     /\ Len(ret) = 2
     /\ Get(ret[1], <<"x">>) = <<"x">>
     /\ Get(ret[1], <<"y">>) = <<>>

(***************************************************************************)
(* Characters of the Japanese strings: one token is one character, so      *)
(* substring tests and character classes work on characters as they do in  *)
(* the source.  Kanji are written capitalized, katakana in capitals,       *)
(* hiragana in lower case.                                                 *)
(***************************************************************************)
\*   Getsu 月  Ka 火  Sui 水  Moku 木  Kin 金  Do 土  Nichi 日  You 曜  Shuku 祝
\*   Sai 祭  Hei 平  Kyuu 休  Gai 外  Rai 来  Zai 在  Taku 宅  Kou 抗  Gen 原
\*   Sou 総  Gou 合  Chi 地  Iki 域  Juu 住  Sho 所  Yaku 薬  Kyoku 局  Mei 名
\*   Ken 検  Sa 査  Hou 訪  Mon 問  Iryo 医  Ryou 療  Yuku 往  Shin 診  Tai 対
\*   Ou 応  Asa 麻  Chuu 注  Sha 射  Mu 無  Saikin 菌  Chou 調  Zai_drug 剤
\*   Sei 製  Kin_urgent 緊  Kyuu_urgent 急  Hi 避  Nin 妊  Fuku 服  Yubi 指
\*   Dou 導  Kai 開  Ten 店  Ho 舗  Oshi 教  Shiri 知  City 市  Town 町
\*   Village 村  Ward 区  Nai 内  Shuu 周  Hen 辺  Fu 付  Chika 近  Kure 呉
\*   Hane 羽  Fujin 婦  Naka 中  Tomi 富  Yama 山  Sakura 桜  Hon 本  ni に
\*   tsu つ  i い  te て  e え  ri り  ta た  wo を  ga が  no の  de で  ha は
\*   he へ  to と  xtsu っ  ka か  ra ら  ma ま  yo よ  ku く  a あ  ru る  sa さ
\*   TA タ  GU グ  O オ  N ン  RA ラ  I イ  KI キ  XTSU ッ  TO ト  KO コ  RO ロ
\*   NA ナ  FU フ  RU ル  E エ  ZA ザ  A ア  PI ピ  CHOUON ー  MO モ  NI ニ  DO ド
\*   SU ス  RI リ  U ウ  SHI シ  SE セ  MU ム  ME メ  NO ノ  GI ギ  SA サ  HI ヒ
\*   HANDAKUTEN ゚  MA マ  TSU ツ  YO ヨ  KU ク  GA ガ  KA カ  DAKUTEN ゙
\*   TOUTEN 、  KUTEN 。  FWCOMMA ，  FSLASH ／  FWSP 　  FWV Ｖ
\*   Den 電  Wa 話  Ban 番  Gou_no 号  Ren 連  Raku 絡  Saki 先  Toki 時  Aida 間
\*   Sora 空  Ei 営  Gyou 業  Gaitou 該  Tou 当  ya や  shi し  BI ビ
\*   LBRACKET 【  RBRACKET 】  NAKAGURO ・  FWCOLON ：  FWHYPHEN －
\*   FWLPAREN （  FWRPAREN ）
\*   Latin letters that a katakana token would collide with carry an
\*   underscore: T_ T  E_ E  L_ L  t_ t  e_ e  l_ l

K_SougouTag == <<"Sou", "Gou", "TA", "GU">>                      \* 総合タグ
K_WeekdayOut == <<"You", "Nichi", "TA", "GU", "_", "Gai", "Rai">> \* 曜日タグ_外来
K_WeekdayHome == <<"You", "Nichi", "TA", "GU", "_", "Zai", "Taku">> \* 曜日タグ_在宅
K_Area == <<"Chi", "Iki">>                                       \* 地域
K_Address == <<"Juu", "Sho">>                                    \* 住所
K_Location == <<"Sho", "Zai", "Chi">>                            \* 所在地
K_Name == <<"Yaku", "Kyoku", "Mei">>                             \* 薬局名

GAIRAI == <<"Gai", "Rai">>    \* 外来
ZAITAKU == <<"Zai", "Taku">>  \* 在宅

(***************************************************************************)
(* Tag helpers (parseTagList, getTags, getDisplayTags)                     *)
(***************************************************************************)
\* The separators of raw.split(/[;／、]/)
TagSeparators == {";", "FSLASH", "TOUTEN"}

\* raw.split(/[;／、]/): the pieces between separators, empty ones included.
RECURSIVE SplitOn(_, _, _)
SplitOn(s, seps, cur) ==
  IF s = <<>> THEN <<cur>>
  ELSE IF Head(s) \in seps THEN <<cur>> \o SplitOn(Tail(s), seps, <<>>)
  ELSE SplitOn(Tail(s), seps, Append(cur, Head(s)))

\* .filter(Boolean) on strings: the empty ones go.
RECURSIVE FilterNonEmpty(_)
FilterNonEmpty(ss) ==
  IF ss = <<>> THEN <<>>
  ELSE (IF Head(ss) = <<>> THEN <<>> ELSE <<Head(ss)>>)
       \o FilterNonEmpty(Tail(ss))

parseTagList(raw) ==
  IF raw = <<>> THEN <<>>
  ELSE LET parts == SplitOn(raw, TagSeparators, <<>>)
       IN  FilterNonEmpty([i \in 1..Len(parts) |-> Trim(parts[i])])

\* Mutant of Dedupe: the list as it is.
Dedupe_None(tags) == tags

\* [...new Set(tags)]: the first occurrence of each element, in order.
RECURSIVE Dedupe(_)
Dedupe(tags) ==
  IF tags = <<>> THEN <<>>
  ELSE LET front == Dedupe(SubSeq(tags, 1, Len(tags) - 1))
           last == tags[Len(tags)]
       IN  IF last \in Range(front) THEN front ELSE Append(front, last)

\* `${day}外来` / `${day}在宅` for each day of a weekday column
DayTags(raw, suffix) ==
  LET days == parseTagList(raw) IN [i \in 1..Len(days) |-> days[i] \o suffix]

getTags(row) ==
  Dedupe(parseTagList(Get(row, K_SougouTag))
         \o DayTags(Get(row, K_WeekdayOut), GAIRAI)
         \o DayTags(Get(row, K_WeekdayHome), ZAITAKU))

\* The character class [月火水木金土日]
DayChars == {"Getsu", "Ka", "Sui", "Moku", "Kin", "Do", "Nichi"}

\* t.match(/[月火水木金土日]曜外来/), /[月火水木金土日]曜在宅/ : anywhere in t
MatchesDaySuffix(t, suffix) ==
  \E i \in 1..(Len(t) - 3) :
    /\ t[i] \in DayChars
    /\ t[i + 1] = "You"
    /\ SubSeq(t, i + 2, i + 3) = suffix

\* t.match(/^[月火水木金土日]曜$/)
IsLoneWeekday(t) == Len(t) = 2 /\ t[1] \in DayChars /\ t[2] = "You"

\* The test of tags.filter(...) in getDisplayTags
IsDisplayed(t) ==
  /\ ~MatchesDaySuffix(t, GAIRAI)
  /\ ~MatchesDaySuffix(t, ZAITAKU)
  /\ ~IsLoneWeekday(t)

\* Array.prototype.filter with the test of getDisplayTags
RECURSIVE FilterDisplayed(_)
FilterDisplayed(tags) ==
  IF tags = <<>> THEN <<>>
  ELSE (IF IsDisplayed(Head(tags)) THEN <<Head(tags)>> ELSE <<>>)
       \o FilterDisplayed(Tail(tags))

getDisplayTags(row) == FilterDisplayed(getTags(row))

(***************************************************************************)
(* getTags and getDisplayTags invoked on a row                             *)
(***************************************************************************)
MaxTagCalls == 2

DOYOU == <<"Do", "You">>          \* 土曜
GETSUYOU == <<"Getsu", "You">>    \* 月曜
NICHIYOU == <<"Nichi", "You">>    \* 日曜
SHUKUJITSU == <<"Shuku", "Nichi">> \* 祝日
KOUGEN == <<"Kou", "Gen">>        \* 抗原

\* Values of the combined-tag column
TagColumnValues ==
  { <<>>,
    ZAITAKU,
    ZAITAKU \o <<";">> \o KOUGEN,
    ZAITAKU \o <<";">> \o ZAITAKU,
    KOUGEN \o <<"FSLASH">> \o ZAITAKU \o <<"TOUTEN">> \o KOUGEN,
    <<SP>> \o ZAITAKU \o <<SP, ";", ";">>,
    ZAITAKU \o <<";">> \o DOYOU \o ZAITAKU \o <<";">> \o ZAITAKU,
    DOYOU \o GAIRAI,
    DOYOU \o <<";">> \o KOUGEN,
    SHUKUJITSU }

\* Values of the two weekday columns
DayColumnValues ==
  { <<>>,
    DOYOU,
    GETSUYOU \o <<";">> \o DOYOU,
    DOYOU \o <<";">> \o DOYOU,
    SHUKUJITSU,
    NICHIYOU \o <<"TOUTEN">> \o SHUKUJITSU }

\* A row of the sheet with the three tag columns, or with the combined-tag
\* column alone.
TagRows ==
  { <<<<K_SougouTag, b>>, <<K_WeekdayOut, o>>, <<K_WeekdayHome, h>>>> :
      b \in TagColumnValues, o \in DayColumnValues, h \in DayColumnValues }
  \cup { <<<<K_SougouTag, b>>>> : b \in TagColumnValues }

InitTags ==
  /\ op = "tags"
  /\ \E r \in TagRows : arg = [row |-> r]
  /\ ret = [tags |-> <<>>, display |-> <<>>]
  /\ done = FALSE

\* const tags = getTags(row)
GetTagsCall ==
  /\ op = "tags"
  /\ Len(ret.tags) < MaxTagCalls
  /\ ret' = [ret EXCEPT !.tags = Append(@, getTags(arg.row))]
  /\ done' = (Len(ret.tags) + 1 = MaxTagCalls /\ Len(ret.display) = 1)
  /\ UNCHANGED <<op, arg>>

\* const servicesArr = getDisplayTags(row)
GetDisplayTagsCall ==
  /\ op = "tags"
  /\ Len(ret.display) < 1
  /\ ret' = [ret EXCEPT !.display = Append(@, getDisplayTags(arg.row))]
  /\ done' = (Len(ret.tags) = MaxTagCalls)
  /\ UNCHANGED <<op, arg>>

NextTags == GetTagsCall \/ GetDisplayTagsCall

SpecTags == InitTags /\ [][NextTags]_vars

(***************************************************************************)
(* Claims on the tag helpers                                               *)
(***************************************************************************)
NoDuplicates(s) == \A i, j \in 1..Len(s) : s[i] = s[j] => i = j

\* Every tag the three columns give, repeated as the columns repeat them.
RawTags(row) ==
  parseTagList(Get(row, K_SougouTag))
  \o DayTags(Get(row, K_WeekdayOut), GAIRAI)
  \o DayTags(Get(row, K_WeekdayHome), ZAITAKU)

\* C9: every call of getTags on a record returns the same tags in the same
\* order, each tag of the three columns once and no tag twice, and the
\* record is left as it was.
C9_GetTagsDedup ==
  /\ [](op = "tags" =>
          \A i \in 1..Len(ret.tags) :
            /\ ret.tags[i] = ret.tags[1]
            /\ NoDuplicates(ret.tags[i])
            /\ Range(ret.tags[i]) = Range(RawTags(arg.row)))
  /\ [][arg' = arg]_vars

\* Witness of C9: getTags was called twice on a record whose combined-tag
\* column repeats a tag and lists a tag that its home-visit weekday column
\* synthesizes too.
C9_Witness ==
  /\ op = "tags"
  /\ Get(arg.row, K_SougouTag) =
       ZAITAKU \o <<";">> \o DOYOU \o ZAITAKU \o <<";">> \o ZAITAKU
  /\ Get(arg.row, K_WeekdayHome) = DOYOU
  /\ Get(arg.row, K_WeekdayOut) = <<>>
  /\ ret.tags = <<<<ZAITAKU, DOYOU \o ZAITAKU>>, <<ZAITAKU, DOYOU \o ZAITAKU>>>>

\* The day labels of the weekday columns: 月曜 ... 日曜 and 祝日
DayLabels ==
  {<<d, "You">> : d \in DayChars} \cup {SHUKUJITSU}

\* The tags getTags synthesizes from a day label: <day>外来 and <day>在宅
SynthesizedDayTags ==
  {d \o GAIRAI : d \in DayLabels} \cup {d \o ZAITAKU : d \in DayLabels}

\* C10: for every day label, the synthesized tags <day>外来 and <day>在宅
\* are never in the result of getDisplayTags, and every tag of getTags that
\* is neither such a tag nor a lone day label is in it.
C10_DisplayTags ==
  op = "tags" =>
    \A i \in 1..Len(ret.display) :
      /\ \A t \in SynthesizedDayTags : t \notin Range(ret.display[i])
      /\ \A t \in Range(getTags(arg.row)) :
           (t \notin SynthesizedDayTags /\ t \notin DayLabels)
           => t \in Range(ret.display[i])

(***************************************************************************)
(* Query tokenizer (tokenizeQuery)                                         *)
(***************************************************************************)
\* s.replace(new RegExp(pat, "g"), rep) for a literal pattern: the matches
\* are found left to right and do not overlap.
RECURSIVE ReplaceAll(_, _, _)
ReplaceAll(s, pat, rep) ==
  IF Len(s) < Len(pat) THEN s
  ELSE IF SubSeq(s, 1, Len(pat)) = pat
       THEN rep \o ReplaceAll(SubSeq(s, Len(pat) + 1, Len(s)), pat, rep)
       ELSE <<Head(s)>> \o ReplaceAll(Tail(s), pat, rep)

\* s.replace(/[...]/g, " ") for a character class
ReplaceChars(s, class) ==
  [i \in 1..Len(s) |-> IF s[i] \in class THEN SP ELSE s[i]]

\* for (const p of pats) q = q.replace(new RegExp(p, "g"), " ")
RECURSIVE BlankEach(_, _)
BlankEach(q, pats) ==
  IF pats = <<>> THEN q
  ELSE BlankEach(ReplaceAll(q, Head(pats), <<SP>>), Tail(pats))

\* for (const keep of MUST_KEEP) q = q.replace(new RegExp(keep, "g"), ` ${keep} `)
RECURSIVE ProtectEach(_, _)
ProtectEach(q, keeps) ==
  IF keeps = <<>> THEN q
  ELSE ProtectEach(ReplaceAll(q, Head(keeps), <<SP>> \o Head(keeps) \o <<SP>>),
                   Tail(keeps))

\* 日曜 日曜日 土曜 土曜日 祝日 平日 休日
MUST_KEEP ==
  << <<"Nichi", "You">>,
    <<"Nichi", "You", "Nichi">>,
    <<"Do", "You">>,
    <<"Do", "You", "Nichi">>,
    <<"Shuku", "Nichi">>,
    <<"Hei", "Nichi">>,
    <<"Kyuu", "Nichi">> >>

stopPhrases ==
  << <<"ni", "tsu", "i", "te", "Oshi", "e", "te">>,
    <<"ni", "tsu", "i", "te", "Shiri", "ri", "ta", "i">>,
    <<"ni", "tsu", "i", "te">>,
    <<"wo", "Oshi", "e", "te">>,
    <<"ga", "Shiri", "ri", "ta", "i">>,
    <<"Shiri", "ri", "ta", "i">>,
    <<"Oshi", "e", "te">>,
    <<"no", "Ten", "Ho", "wo", "Shiri", "ri", "ta", "i">>,
    <<"no", "Ten", "Ho">> >>

\* [、。.,，]
Punctuation == {"TOUTEN", "KUTEN", ".", ",", "FWCOMMA"}

\* [ではがをにへとってからまでよりへで]
Particles ==
  {"de", "ha", "ga", "wo", "ni", "he", "to", "xtsu", "te", "ka", "ra", "ma", "yo", "ri"}

\* Mutant of genericWords: 薬局 is missing from the list.
genericWords_NoYakkyoku == <<<<"Ten", "Ho">>, <<"Ten">>>>

\* 薬局 店舗 店 薬
genericWords == << <<"Yaku", "Kyoku">>,
                <<"Ten", "Ho">>,
                <<"Ten">>,
                <<"Yaku">> >>

\* The characters \s matches that a query of the model can hold: the space
\* and the full-width space.
QueryWhiteSpace == {SP, "FWSP"}

\* w.replace(/(s1|s2|...)$/, ""): the match that starts leftmost wins, which
\* is the longest of the suffixes w ends with.
EndsWith(w, suf) ==
  Len(w) >= Len(suf) /\ SubSeq(w, Len(w) - Len(suf) + 1, Len(w)) = suf

StripSuffix(w, sufs) ==
  LET hits == {suf \in sufs : EndsWith(w, suf)} IN
  IF hits = {} THEN w
  ELSE LET best == CHOOSE suf \in hits : \A o \in hits : Len(o) <= Len(suf)
       IN  SubSeq(w, 1, Len(w) - Len(best))

\* エリア 地域 周辺 付近
AreaSuffixes == { <<"E", "RI", "A">>,
                <<"Chi", "Iki">>,
                <<"Shuu", "Hen">>,
                <<"Fu", "Chika">> }

\* 地域 周辺 近く あたり 付近
noiseWords == { <<"Chi", "Iki">>,
              <<"Shuu", "Hen">>,
              <<"Chika", "ku">>,
              <<"a", "ta", "ri">>,
              <<"Fu", "Chika">> }

\* 市内 市 町 村 区
CitySuffixes == { <<"City", "Nai">>,
                <<"City">>,
                <<"Town">>,
                <<"Village">>,
                <<"Ward">> }

\* Array.prototype.filter(w => !noiseWords.includes(w))
RECURSIVE DropNoise(_)
DropNoise(ws) ==
  IF ws = <<>> THEN <<>>
  ELSE (IF Head(ws) \in noiseWords THEN <<>> ELSE <<Head(ws)>>)
       \o DropNoise(Tail(ws))

tokenizeQuery(qRaw) ==
  LET q1 == ProtectEach(qRaw, MUST_KEEP)
      q2 == BlankEach(q1, stopPhrases)
      q3 == ReplaceChars(ReplaceChars(q2, Punctuation), Particles)
      q4 == BlankEach(q3, genericWords)
      parts == SplitOn(q4, QueryWhiteSpace, <<>>)
      rawWords == FilterNonEmpty(
                    [i \in 1..Len(parts) |-> StripSuffix(parts[i], AreaSuffixes)])
      kept == DropNoise(rawWords)
  IN  FilterNonEmpty([i \in 1..Len(kept) |-> StripSuffix(kept[i], CitySuffixes)])

(***************************************************************************)
(* Weekday and service-tag taxonomies, condition extraction                *)
(***************************************************************************)
WEEKDAY_MAP ==
  << [canonical |-> <<"Getsu", "You">>,
      keywords |-> << <<"Getsu", "You">>,
                   <<"Getsu", "You", "Nichi">> >>],
     [canonical |-> <<"Ka", "You">>,
      keywords |-> << <<"Ka", "You">>,
                   <<"Ka", "You", "Nichi">> >>],
     [canonical |-> <<"Sui", "You">>,
      keywords |-> << <<"Sui", "You">>,
                   <<"Sui", "You", "Nichi">> >>],
     [canonical |-> <<"Moku", "You">>,
      keywords |-> << <<"Moku", "You">>,
                   <<"Moku", "You", "Nichi">> >>],
     [canonical |-> <<"Kin", "You">>,
      keywords |-> << <<"Kin", "You">>,
                   <<"Kin", "You", "Nichi">>,
                   <<"Hei", "Nichi">> >>],
     [canonical |-> <<"Do", "You">>,
      keywords |-> << <<"Do", "You">>,
                   <<"Do", "You", "Nichi">> >>],
     [canonical |-> <<"Nichi", "You">>,
      keywords |-> << <<"Nichi", "You">>,
                   <<"Nichi", "You", "Nichi">> >>],
     [canonical |-> <<"Shuku", "Nichi">>,
      keywords |-> << <<"Shuku", "Nichi">>,
                   <<"Sai", "Nichi">> >>] >>

\* The first entry of table (canonical/keywords or tag/keywords) one of
\* whose keywords the word includes; 0 when there is none.
FirstMatch(table, word) ==
  LET hits == {i \in 1..Len(table) :
                 \E k \in 1..Len(table[i].keywords) :
                   Includes(word, table[i].keywords[k])}
  IN  IF hits = {} THEN 0 ELSE CHOOSE i \in hits : \A j \in hits : i <= j

\* detectWeekday(word): the canonical day, or the empty string for null.
detectWeekday(word) ==
  LET i == FirstMatch(WEEKDAY_MAP, word) IN
  IF i = 0 THEN <<>> ELSE WEEKDAY_MAP[i].canonical

SERVICE_TAGS ==
  << [tag |-> <<"O", "N", "RA", "I", "N">>,
      keywords |-> << <<"O", "N", "RA", "I", "N">>,
                   <<"O", "N", "RA", "I", "N", "Fuku", "Yaku", "Yubi", "Dou">>,
                   <<"O", "N", "RA", "I", "N", "Shin", "Ryou">> >>],
     [tag |-> <<"Kou", "Gen">>,
      keywords |-> << <<"Kou", "Gen">>,
                   <<"Kou", "Gen", "Ken", "Sa">>,
                   <<"Kou", "Gen", "Ken", "Sa", "KI", "XTSU", "TO">>,
                   <<"Ken", "Sa", "KI", "XTSU", "TO">>,
                   <<"Ken", "Sa", "Yaku">>,
                   <<"KO", "RO", "NA">>,
                   <<"KO", "RO", "NA", "Ken", "Sa">>,
                   <<"I", "N", "FU", "RU">>,
                   <<"I", "N", "FU", "RU", "E", "N", "ZA">> >>],
     [tag |-> <<"Zai", "Taku">>,
      keywords |-> << <<"Zai", "Taku">>,
                   <<"Hou", "Mon">>,
                   <<"Zai", "Taku", "Iryo", "Ryou">>,
                   <<"Yuku", "Shin">>,
                   <<"Hou", "Mon", "Tai", "Ou">> >>],
     [tag |-> <<"Asa", "Yaku">>,
      keywords |-> << <<"Asa", "Yaku">>,
                   <<"Asa", "Yaku", "Chuu", "Sha">> >>],
     [tag |-> <<"Mu", "Saikin", "Chou", "Zai_drug">>,
      keywords |-> << <<"Mu", "Saikin">>,
                   <<"Mu", "Saikin", "Chou", "Zai_drug">>,
                   <<"Mu", "Saikin", "Sei", "Zai_drug">> >>],
     [tag |-> <<"Kin_urgent", "Kyuu_urgent", "Hi", "Nin">>,
      keywords |-> << <<"Hi", "Nin">>,
                   <<"Kin_urgent", "Kyuu_urgent", "Hi", "Nin">>,
                   <<"Kin_urgent", "Kyuu_urgent", "Hi", "Nin", "Yaku">>,
                   <<"A", "FU", "TA", "CHOUON", "PI", "RU">>,
                   <<"MO", "CHOUON", "NI", "N", "GU", "A", "FU", "TA", "CHOUON", "PI", "RU">>,
                   <<"PI", "RU">> >>],
     [tag |-> <<"Do", "You", "Zai", "Taku">>,
      keywords |-> << <<"Do", "You", "Zai", "Taku">>,
                   <<"Do", "You", "Nichi", "Zai", "Taku">>,
                   <<"Do", "You", "ni", "Zai", "Taku">>,
                   <<"Do", "You", "Nichi", "ni", "Zai", "Taku">>,
                   <<"Do", "You", "Nichi", " ", "Zai", "Taku", "Tai", "Ou">>,
                   <<"Do", "You", " ", "Zai", "Taku", "Tai", "Ou">> >>],
     [tag |-> <<"Do", "You", "Gai", "Rai">>,
      keywords |-> << <<"Do", "You", "Gai", "Rai">>,
                   <<"Do", "You", "Nichi", "Gai", "Rai">>,
                   <<"Do", "You", "ni", "Kai", "i", "te", "i", "ru", "Yaku", "Kyoku">>,
                   <<"Do", "You", "Nichi", "ni", "Kai", "i", "te", "i", "ru", "Yaku", "Kyoku">>,
                   <<"Do", "You", "Nichi", " ", "Kai", "i", "te", "i", "ru", "Yaku", "Kyoku">> >>] >>

\* ドラッグストア, ドラッグ
DrugstoreWords == { <<"DO", "RA", "XTSU", "GU", "SU", "TO", "A">>,
                  <<"DO", "RA", "XTSU", "GU">> }

\* w.includes("ドラッグストア") || w.includes("ドラッグ")
IsDrugstoreWord(w) == \E d \in DrugstoreWords : Includes(w, d)

\* if (!list.includes(x)) list.push(x)
PushUnique(list, x) == IF x \in Range(list) THEN list ELSE Append(list, x)

\* Mutant of Classify: a weekday word goes on to the later tests, the
\* "continue" after the weekday tag being lost.
Classify_NoContinue(c, w) ==
  LET c1 == IF detectWeekday(w) # <<>>
            THEN [c EXCEPT !.weekdayTags = PushUnique(@, detectWeekday(w))]
            ELSE c
  IN  IF IsDrugstoreWord(w)
      THEN [c1 EXCEPT !.hasDrugstoreWord = TRUE]
      ELSE IF FirstMatch(SERVICE_TAGS, w) # 0
      THEN [c1 EXCEPT !.requestedTags =
                        PushUnique(@, SERVICE_TAGS[FirstMatch(SERVICE_TAGS, w)].tag)]
      ELSE IF detectWeekday(w) # <<>> THEN c1
      ELSE [c1 EXCEPT !.freeWords = Append(@, w)]

\* One turn of the loop "for (const w of words)" of extractConditions.
Classify(c, w) ==
  IF detectWeekday(w) # <<>>
  THEN [c EXCEPT !.weekdayTags = PushUnique(@, detectWeekday(w))]
  ELSE IF IsDrugstoreWord(w)
  THEN [c EXCEPT !.hasDrugstoreWord = TRUE]
  ELSE IF FirstMatch(SERVICE_TAGS, w) # 0
  THEN [c EXCEPT !.requestedTags =
                    PushUnique(@, SERVICE_TAGS[FirstMatch(SERVICE_TAGS, w)].tag)]
  ELSE [c EXCEPT !.freeWords = Append(@, w)]

RECURSIVE ClassifyAll(_, _)
ClassifyAll(c, words) ==
  IF words = <<>> THEN c
  ELSE ClassifyAll(Classify(c, Head(words)), Tail(words))

extractConditions(qRaw) ==
  ClassifyAll([requestedTags |-> <<>>, freeWords |-> <<>>,
               weekdayTags |-> <<>>, hasDrugstoreWord |-> FALSE],
              tokenizeQuery(qRaw))

(***************************************************************************)
(* Search (searchPharmacies)                                               *)
(***************************************************************************)
\* row["住所"] ?? row["所在地"] ?? ""
AddressOf(row) ==
  IF HasKey(row, K_Address) THEN Get(row, K_Address) ELSE Get(row, K_Location)

\* `${area} ${addr} ${name}`
TargetText(row) ==
  Get(row, K_Area) \o <<SP>> \o AddressOf(row) \o <<SP>> \o Get(row, K_Name)

\* words.every((w) => w && targetText.includes(w))
MatchesWords(row, words) ==
  \A i \in 1..Len(words) :
    words[i] # <<>> /\ Includes(TargetText(row), words[i])

filterOnce(rows, words) ==
  IF Len(words) = 0 THEN rows
  ELSE LET Keep(row) == MatchesWords(row, words) IN SelectSeq(rows, Keep)

\* Mutant of LocationStage: no relaxation, the filter on every word stands.
LocationStage_NoRelax(records, addressWords) == filterOnce(records, addressWords)

\* (1) the location filter and its relaxation to the first free word
LocationStage(records, addressWords) ==
  LET filtered == filterOnce(records, addressWords) IN
  IF Len(filtered) = 0 /\ Len(addressWords) = 0 THEN records
  ELSE IF Len(filtered) = 0 /\ Len(addressWords) > 0
       THEN filterOnce(records, <<addressWords[1]>>)
       ELSE filtered

\* Mutant of HasAllTags: one requested tag is enough.
HasAllTags_Any(row, requestedTags) ==
  \E i \in 1..Len(requestedTags) : requestedTags[i] \in Range(getTags(row))

\* requestedTags.every((tag) => tags.includes(tag))
HasAllTags(row, requestedTags) ==
  \A i \in 1..Len(requestedTags) : requestedTags[i] \in Range(getTags(row))

\* (2) the service-tag filter
TagStage(rows, requestedTags) ==
  IF Len(requestedTags) > 0
  THEN LET Keep(row) == HasAllTags(row, requestedTags) IN SelectSeq(rows, Keep)
  ELSE rows

\* weekdayTags.every((wd) => y.includes(wd)) on the column the filter reads
HasAllWeekdays(row, weekdayTags, column) ==
  \A i \in 1..Len(weekdayTags) : Includes(Get(row, column), weekdayTags[i])

\* Mutant of WeekdayColumn: the outpatient column whatever is requested.
WeekdayColumn_AlwaysOut(needHome) == K_WeekdayOut

\* The weekday column the filter reads: home-visit when 在宅 is requested.
WeekdayColumn(needHome) == IF needHome THEN K_WeekdayHome ELSE K_WeekdayOut

\* (3) the weekday filter
WeekdayStage(rows, weekdayTags, needHome) ==
  IF Len(weekdayTags) > 0
  THEN LET Keep(row) == HasAllWeekdays(row, weekdayTags, WeekdayColumn(needHome))
       IN  SelectSeq(rows, Keep)
  ELSE rows

DRUGSTORE_CHAINS ==
  { <<"U", "E", "RU", "SHI", "A">>,
    <<"V", "DO", "RA", "XTSU", "GU">>,
    <<"FWV", "DO", "RA", "XTSU", "GU">>,
    <<"KU", "SU", "RI", "no", "A", "O", "KI">>,
    <<"DO", "RA", "XTSU", "GU", "SE", "I", "MU", "SU">>,
    <<"SHI", "ME", "NO", "DO", "RA", "XTSU", "GU">>,
    <<"SU", "GI", "Yaku", "Kyoku">>,
    <<"MA", "TSU", "MO", "TO", "KI", "YO", "SHI">> }

\* DRUGSTORE_CHAINS.some((kw) => name.includes(kw))
IsDrugstore(row) == \E kw \in DRUGSTORE_CHAINS : Includes(Get(row, K_Name), kw)

\* Mutant of DrugstoreStage: the flag is ignored.
DrugstoreStage_Off(rows, hasDrugstoreWord) == rows

\* (3.5) the drugstore filter
DrugstoreStage(rows, hasDrugstoreWord) ==
  IF hasDrugstoreWord THEN SelectSeq(rows, IsDrugstore) ELSE rows

\* The rows that reach the sort, for the conditions c of the query.
searchFiltered(records, c) ==
  DrugstoreStage(
    WeekdayStage(
      TagStage(LocationStage(records, c.freeWords), c.requestedTags),
      c.weekdayTags, ZAITAKU \in Range(c.requestedTags)),
    c.hasDrugstoreWord)

(***************************************************************************)
(* Collation and sort                                                      *)
(*                                                                         *)
(* String.prototype.localeCompare compares by collation keys: canonically  *)
(* equivalent strings (a precomposed kana and the same kana followed by    *)
(* the combining mark) have the same key and compare as 0, although they   *)
(* are different strings.                                                  *)
(***************************************************************************)
\* Canonical decomposition of a character.
DecomposeChar(ch) ==
  CASE ch = "GA" -> <<"KA", "DAKUTEN">>
    [] ch = "GU" -> <<"KU", "DAKUTEN">>
    [] ch = "GI" -> <<"KI", "DAKUTEN">>
    [] ch = "DO" -> <<"TO", "DAKUTEN">>
    [] ch = "ZA" -> <<"SA", "DAKUTEN">>
    [] ch = "PI" -> <<"HI", "HANDAKUTEN">>
    [] OTHER -> <<ch>>

Decompose(s) == Concat([i \in 1..Len(s) |-> DecomposeChar(s[i])])

\* The order of the collation elements the rows of the model hold.
CollationOrder ==
  <<" ", "DAKUTEN", "HANDAKUTEN", "ku", "sa", "no", "ra", "A", "U", "E", "KA", "KI", "KU", "SA", "SHI", "SU", "SE", "TO", "HI", "RU", "V",
    "Hane", "Kure", "Sakura", "Naka", "Fujin", "Yaku", "Kyoku", "Hon", "Yama", "Tomi", "Ten">>

Rank(ch) == CHOOSE i \in 1..Len(CollationOrder) : CollationOrder[i] = ch

\* Three-way comparison of two sequences of collation elements.
RECURSIVE CompareKeys(_, _)
CompareKeys(a, b) ==
  IF a = <<>> /\ b = <<>> THEN 0
  ELSE IF a = <<>> THEN -1
  ELSE IF b = <<>> THEN 1
  ELSE IF Rank(Head(a)) < Rank(Head(b)) THEN -1
  ELSE IF Rank(Head(a)) > Rank(Head(b)) THEN 1
  ELSE CompareKeys(Tail(a), Tail(b))

\* a.localeCompare(b, "ja")
localeCompare(a, b) == CompareKeys(Decompose(a), Decompose(b))

\* The comparator given to sort.
compareRows(a, b) ==
  IF Get(a, K_Area) # Get(b, K_Area)
  THEN localeCompare(Get(a, K_Area), Get(b, K_Area))
  ELSE localeCompare(Get(a, K_Name), Get(b, K_Name))

\* A consistent comparator for the elements of rows, as ECMA-262 defines it
\* for Array.prototype.sort.
ConsistentOn(rows) ==
  LET S == Range(rows) IN
  /\ \A a \in S : compareRows(a, a) = 0
  /\ \A a, b \in S :
       /\ compareRows(a, b) = 0 => compareRows(b, a) = 0
       /\ compareRows(a, b) < 0 => compareRows(b, a) > 0
  /\ \A a, b, c \in S :
       /\ (compareRows(a, b) = 0 /\ compareRows(b, c) = 0)
            => compareRows(a, c) = 0
       /\ (compareRows(a, b) < 0 /\ compareRows(b, c) < 0)
            => compareRows(a, c) < 0
       /\ (compareRows(a, b) > 0 /\ compareRows(b, c) > 0)
            => compareRows(a, c) > 0

\* x put into an ordered list behind the elements that do not come after it.
InsertStable(sorted, x) ==
  LET n == Cardinality({i \in 1..Len(sorted) : compareRows(sorted[i], x) <= 0})
  IN  SubSeq(sorted, 1, n) \o <<x>> \o SubSeq(sorted, n + 1, Len(sorted))

\* The stable sort of rows.
RECURSIVE StableSort(_)
StableSort(rows) ==
  IF rows = <<>> THEN <<>>
  ELSE InsertStable(StableSort(SubSeq(rows, 1, Len(rows) - 1)), rows[Len(rows)])

\* Every order of the elements of rows.
AllOrders(rows) ==
  {[i \in 1..Len(rows) |-> rows[p[i]]] :
     p \in {f \in [1..Len(rows) -> 1..Len(rows)] :
              \A i, j \in 1..Len(rows) : f[i] = f[j] => i = j}}

\* [...filtered].sort(compareRows): the stable sort when the comparator is
\* consistent, an implementation-defined order when it is not.
SortOutcomes(rows) ==
  IF ConsistentOn(rows) THEN {StableSort(rows)} ELSE AllOrders(rows)

\* The values searchPharmacies can return.
searchPharmacies(records, qRaw) ==
  LET c == extractConditions(qRaw) IN
  {[result |-> sorted, requestedTags |-> c.requestedTags, freeWords |-> c.freeWords] :
     sorted \in SortOutcomes(searchFiltered(records, c))}

(***************************************************************************)
(* searchPharmacies invoked on records and a query, and once more on the   *)
(* query with one more word                                                *)
(***************************************************************************)
\* The sheet.
\*   桜薬局 / 呉羽 / 在宅;抗原 / outpatient 土曜
\*   本薬局 / 呉羽 / 在宅 / home-visit 土曜
\*   ウエルシア薬局 / 婦中 / 抗原 / outpatient 月曜;土曜, home-visit 月曜
\*   スギ薬局 / 所在地 婦中, no region and no tag columns
\*   桜薬局 / 婦中 / 在宅;抗原 / outpatient 土曜, home-visit 土曜
Corpus ==
  << <<<<K_Name, <<"Sakura", "Yaku", "Kyoku">>>>, <<K_Area, <<"Kure", "Hane">>>>, <<K_SougouTag, <<"Zai", "Taku", ";", "Kou", "Gen">>>>, <<K_WeekdayOut, <<"Do", "You">>>>, <<K_WeekdayHome, <<>>>>>>,
     <<<<K_Name, <<"Hon", "Yaku", "Kyoku">>>>, <<K_Area, <<"Kure", "Hane">>>>, <<K_SougouTag, <<"Zai", "Taku">>>>, <<K_WeekdayOut, <<>>>>, <<K_WeekdayHome, <<"Do", "You">>>>>>,
     <<<<K_Name, <<"U", "E", "RU", "SHI", "A", "Yaku", "Kyoku">>>>, <<K_Area, <<"Fujin", "Naka">>>>, <<K_SougouTag, <<"Kou", "Gen">>>>, <<K_WeekdayOut, <<"Getsu", "You", ";", "Do", "You">>>>, <<K_WeekdayHome, <<"Getsu", "You">>>>>>,
     <<<<K_Name, <<"SU", "GI", "Yaku", "Kyoku">>>>, <<K_Location, <<"Fujin", "Naka">>>>>>,
     <<<<K_Name, <<"Sakura", "Yaku", "Kyoku">>>>, <<K_Area, <<"Fujin", "Naka">>>>, <<K_SougouTag, <<"Zai", "Taku", ";", "Kou", "Gen">>>>, <<K_WeekdayOut, <<"Do", "You">>>>, <<K_WeekdayHome, <<"Do", "You">>>>>> >>

\* The rows of s at the indices of idx, in the order of s.
RECURSIVE Pick(_, _, _)
Pick(s, idx, i) ==
  IF i > Len(s) THEN <<>>
  ELSE (IF i \in idx THEN <<s[i]>> ELSE <<>>) \o Pick(s, idx, i + 1)

\* The record lists: the rows of the sheet, any of them left out.
RecordLists == {Pick(Corpus, idx, 1) : idx \in SUBSET (1..Len(Corpus))}

\* Words of a query: 呉羽 婦中町 在宅 抗原 土曜 ドラッグストア, or no word
QueryWords ==
  { <<>>,
    <<"Kure", "Hane">>,
    <<"Fujin", "Naka", "Town">>,
    <<"Zai", "Taku">>,
    <<"Kou", "Gen">>,
    <<"Do", "You">>,
    <<"DO", "RA", "XTSU", "GU", "SU", "TO", "A">> }

\* Endings of a query, made of stop phrases, particles, punctuation and
\* generic nouns only: none, 薬局について教えて
QuerySuffixes ==
  { <<>>,
    <<"Yaku", "Kyoku", "ni", "tsu", "i", "te", "Oshi", "e", "te">> }

\* The service-tag words a query is extended by: 在宅 抗原検査
ExtraWords ==
  { <<"Zai", "Taku">>,
    <<"Kou", "Gen", "Ken", "Sa">> }

\* The query text of two words and an ending.
QueryText(w1, w2, suffix) == w1 \o <<SP>> \o w2 \o suffix

InitSearch ==
  /\ op = "searchPharmacies"
  /\ \E rs \in RecordLists, w1 \in QueryWords,
        w2 \in QueryWords, suffix \in QuerySuffixes, extra \in ExtraWords :
       arg = [records |-> rs, w1 |-> w1, w2 |-> w2, suffix |-> suffix,
              q |-> QueryText(w1, w2, suffix), extra |-> extra]
  /\ ret = [base |-> <<>>, more |-> <<>>]
  /\ done = FALSE

\* const { result, requestedTags, freeWords } = searchPharmacies(records, q)
SearchCall ==
  /\ op = "searchPharmacies"
  /\ Len(ret.base) = 0
  /\ \E out \in searchPharmacies(arg.records, arg.q) :
       ret' = [ret EXCEPT !.base = <<out>>]
  /\ done' = ("extra" \notin DOMAIN arg)
  /\ UNCHANGED <<op, arg>>

\* The query with one more word.
MoreQuery == arg.q \o <<SP>> \o arg.extra

\* searchPharmacies(records, q + " " + extra)
SearchMoreCall ==
  /\ op = "searchPharmacies"
  /\ "extra" \in DOMAIN arg
  /\ Len(ret.base) = 1
  /\ Len(ret.more) = 0
  /\ \E out \in searchPharmacies(arg.records, MoreQuery) :
       ret' = [ret EXCEPT !.more = <<out>>]
  /\ done' = TRUE
  /\ UNCHANGED <<op, arg>>

NextSearch == SearchCall \/ SearchMoreCall

SpecSearch == InitSearch /\ [][NextSearch]_vars

(***************************************************************************)
(* searchPharmacies invoked on records whose regions and names hold        *)
(* canonically equivalent spellings                                        *)
(***************************************************************************)
MaxSortRecords == 3

\* Regions ガ (precomposed), ガ (カ and the combining mark), カ;
\* names ア, ウ
SortRows ==
  { <<<<K_Name, n>>, <<K_Area, a>>>> :
      n \in {<<"A">>, <<"U">>},
      a \in {<<"GA">>, <<"KA", "DAKUTEN">>, <<"KA">>} }

InitSort ==
  /\ op = "searchPharmacies"
  /\ \E rs \in SeqsUpTo(SortRows, MaxSortRecords), suffix \in QuerySuffixes :
       arg = [records |-> rs, q |-> suffix]
  /\ ret = [base |-> <<>>, more |-> <<>>]
  /\ done = FALSE

NextSort == SearchCall

SpecSort == InitSort /\ [][NextSort]_vars

(***************************************************************************)
(* Claims on searchPharmacies                                              *)
(***************************************************************************)
\* q2 adds service tags to q and changes nothing else of the conditions.
AddsTagsOnly(c, c2) ==
  /\ Range(c.requestedTags) \subseteq Range(c2.requestedTags)
  /\ Range(c.requestedTags) # Range(c2.requestedTags)
  /\ c2.freeWords = c.freeWords
  /\ c2.weekdayTags = c.weekdayTags
  /\ c2.hasDrugstoreWord = c.hasDrugstoreWord

\* C5 as stated: a query with one more service-tag word, and the same free
\* words, weekday tags and drugstore flag, never returns more records.
C5_Monotone ==
  (op = "searchPharmacies" /\ Len(ret.more) = 1) =>
    (AddsTagsOnly(extractConditions(arg.q), extractConditions(MoreQuery))
     => Len(ret.more[1].result) <= Len(ret.base[1].result))

\* C5 amended: the same, when the query names no weekday or the added word
\* does not change whether 在宅 is requested.
C5_MonotoneSameWeekdayColumn ==
  (op = "searchPharmacies" /\ Len(ret.more) = 1) =>
    LET c == extractConditions(arg.q)
        c2 == extractConditions(MoreQuery)
    IN  (/\ AddsTagsOnly(c, c2)
         /\ \/ c.weekdayTags = <<>>
            \/ (ZAITAKU \in Range(c.requestedTags)
                  <=> ZAITAKU \in Range(c2.requestedTags)))
        => Len(ret.more[1].result) <= Len(ret.base[1].result)

\* Witness of C5: 土曜 在宅 returns two records and 土曜 在宅 抗原検査 one.
C5_Witness ==
  /\ op = "searchPharmacies"
  /\ Len(ret.more) = 1
  /\ extractConditions(arg.q).weekdayTags = <<DOYOU>>
  /\ extractConditions(arg.q).requestedTags = <<ZAITAKU>>
  /\ extractConditions(MoreQuery).requestedTags = <<ZAITAKU, KOUGEN>>
  /\ Len(ret.base[1].result) = 2
  /\ Len(ret.more[1].result) = 1

\* The rows of rows that the weekday filter and the drugstore filter of the
\* conditions c keep.
PassesOtherFilters(row, c) ==
  /\ Len(c.weekdayTags) > 0 =>
       \A i \in 1..Len(c.weekdayTags) :
         Includes(Get(row, IF ZAITAKU \in Range(c.requestedTags)
                           THEN K_WeekdayHome ELSE K_WeekdayOut),
                  c.weekdayTags[i])
  /\ c.hasDrugstoreWord => IsDrugstore(row)

\* The number of times x occurs in s.
Count(s, x) == Cardinality({i \in 1..Len(s) : s[i] = x})

\* C6: with requested tags, every record of the result has every requested
\* tag among its getTags, and every record that passed the location filter,
\* passes the weekday and drugstore filters and has every requested tag is
\* in the result.
C6_TagFilterAnd ==
  (op = "searchPharmacies" /\ Len(ret.base) = 1) =>
    LET c == extractConditions(arg.q)
        loc == LocationStage(arg.records, c.freeWords)
        out == ret.base[1]
        Expected(row) ==
          /\ Range(out.requestedTags) \subseteq Range(getTags(row))
          /\ PassesOtherFilters(row, c)
    IN  Len(out.requestedTags) > 0 =>
          /\ out.requestedTags = c.requestedTags
          /\ \A i \in 1..Len(out.result) :
               Range(out.requestedTags) \subseteq Range(getTags(out.result[i]))
          /\ \A i \in 1..Len(loc) :
               Expected(loc[i]) =>
                 Count(out.result, loc[i]) = Count(loc, loc[i])

\* Witness of C6: 在宅 抗原 asked of a record with both tags and a record
\* with one of them; the result is the record with both.
C6_Witness ==
  /\ op = "searchPharmacies"
  /\ Len(ret.base) = 1
  /\ ret.base[1].requestedTags = <<ZAITAKU, KOUGEN>>
  /\ Len(arg.records) = 2
  /\ Range(getTags(arg.records[1])) = {ZAITAKU, DOYOU \o ZAITAKU}
  /\ ret.base[1].result = <<arg.records[2]>>

\* C7: adjacent records of the result are ordered by region under the
\* collation and, when their regions compare equal under the collation, by
\* name.
C7_SortedByRegionThenName ==
  (op = "searchPharmacies" /\ Len(ret.base) = 1) =>
    LET r == ret.base[1].result IN
    \A i \in 1..(Len(r) - 1) :
      /\ localeCompare(Get(r[i], K_Area), Get(r[i + 1], K_Area)) <= 0
      /\ localeCompare(Get(r[i], K_Area), Get(r[i + 1], K_Area)) = 0
           => localeCompare(Get(r[i], K_Name), Get(r[i + 1], K_Name)) <= 0

RECURSIVE RemoveWhiteSpace(_)
RemoveWhiteSpace(v) ==
  IF v = <<>> THEN <<>>
  ELSE (IF Head(v) \in WhiteSpace THEN <<>> ELSE <<Head(v)>>)
       \o RemoveWhiteSpace(Tail(v))

\* 開局時間
K_OpeningHours == <<"Kai", "Kyoku", "Toki", "Aida">>

dayDefs ==
  << [label |-> <<"Getsu">>, patterns |-> {<<"Getsu", "You">>, <<"Getsu", "You", "Nichi">>}],
     [label |-> <<"Ka">>, patterns |-> {<<"Ka", "You">>, <<"Ka", "You", "Nichi">>}],
     [label |-> <<"Sui">>, patterns |-> {<<"Sui", "You">>, <<"Sui", "You", "Nichi">>}],
     [label |-> <<"Moku">>, patterns |-> {<<"Moku", "You">>, <<"Moku", "You", "Nichi">>}],
     [label |-> <<"Kin">>, patterns |-> {<<"Kin", "You">>, <<"Kin", "You", "Nichi">>, <<"Hei", "Nichi">>}],
     [label |-> <<"Do">>, patterns |-> {<<"Do", "You">>, <<"Do", "You", "Nichi">>}],
     [label |-> <<"Nichi">>, patterns |-> {<<"Nichi", "You">>, <<"Nichi", "You", "Nichi">>}],
     [label |-> <<"Shuku">>, patterns |-> {<<"Shuku", "Nichi">>, <<"Shuku", "Sai", "Nichi">>}] >>

\* keys.find(...): the index of the first opening-hours header of the day,
\* 0 when the row has none.
DayColumn(row, day) ==
  LET hits == {i \in 1..Len(row) :
                 /\ Includes(row[i][1], K_OpeningHours)
                 /\ \E p \in day.patterns : Includes(row[i][1], p)}
  IN  IF hits = {} THEN 0 ELSE CHOOSE i \in hits : \A j \in hits : i <= j

\* The cell values getOpeningHours skips: empty, "-" and the full-width hyphen.
ClosedMarks == {<<>>, <<"-">>, <<"FWHYPHEN">>}

\* One turn of the loop "for (const day of dayDefs)".
DayPart(row, day) ==
  LET i == DayColumn(row, day) IN
  IF i = 0 THEN <<>>
  ELSE IF Get(row, row[i][1]) \in ClosedMarks THEN <<>>
  ELSE <<day.label \o RemoveWhiteSpace(Get(row, row[i][1]))>>

getOpeningHours(row) ==
  Join(Concat([d \in 1..Len(dayDefs) |-> DayPart(row, dayDefs[d])]), <<" ", "/", " ">>)

\* 電話番号 TEL 連絡先電話番号 連絡先電話番号（開局中）
priorityKeys ==
  << <<"Den", "Wa", "Ban", "Gou_no">>,
     <<"T_", "E_", "L_">>,
     <<"Ren", "Raku", "Saki", "Den", "Wa", "Ban", "Gou_no">>,
     <<"Ren", "Raku", "Saki", "Den", "Wa", "Ban", "Gou_no", "FWLPAREN", "Kai", "Kyoku", "Naka", "FWRPAREN">> >>

\* \d
Digits == {"0", "1", "2", "3", "4", "5", "6", "7", "8", "9"}

\* The number of digits s holds from position p on.
RECURSIVE DigitRun(_, _)
DigitRun(s, p) ==
  IF p <= Len(s) /\ s[p] \in Digits THEN 1 + DigitRun(s, p + 1) ELSE 0

\* The end of the match of /0\d{1,4}-\d{1,4}-\d{3,4}/ that starts at i, 0 when
\* there is none.  A group of digits followed by the hyphen has to be the
\* whole run of digits; the last group is greedy.
PhoneEndAt(s, i) ==
  LET r1 == DigitRun(s, i + 1)
      p2 == i + 1 + r1 + 1
      r2 == DigitRun(s, p2)
      p3 == p2 + r2 + 1
      r3 == DigitRun(s, p3)
  IN  IF /\ i <= Len(s) /\ s[i] = "0"
         /\ r1 \in 1..4 /\ p2 - 1 <= Len(s) /\ s[p2 - 1] = "-"
         /\ r2 \in 1..4 /\ p3 - 1 <= Len(s) /\ s[p3 - 1] = "-"
         /\ r3 >= 3
      THEN p3 + Min(r3, 4) - 1
      ELSE 0

\* value.match(phoneRegex): m[0] of the leftmost match, the empty string
\* when there is no match.
PhoneMatch(s) ==
  LET starts == {i \in 1..Len(s) : PhoneEndAt(s, i) # 0} IN
  IF starts = {} THEN <<>>
  ELSE LET i == CHOOSE x \in starts : \A y \in starts : x <= y
       IN  SubSeq(s, i, PhoneEndAt(s, i))

\* Case folding for the flag i of /電話|TEL/i
UpperChar(ch) ==
  CASE ch = "t_" -> "T_"
    [] ch = "e_" -> "E_"
    [] ch = "l_" -> "L_"
    [] OTHER -> ch

\* /電話|TEL/i.test(key)
IsPhoneKey(key) ==
  \/ Includes(key, <<"Den", "Wa">>)
  \/ Includes([i \in 1..Len(key) |-> UpperChar(key[i])], <<"T_", "E_", "L_">>)

\* The first element of a list of strings that is not empty, "" when none is.
RECURSIVE FirstNonEmpty(_)
FirstNonEmpty(ss) ==
  IF ss = <<>> THEN <<>>
  ELSE IF Head(ss) # <<>> THEN Head(ss)
  ELSE FirstNonEmpty(Tail(ss))

\* The first loop of getTel: the trimmed values of the well-known headers.
PriorityValues(row) ==
  [k \in 1..Len(priorityKeys) |-> Trim(Get(row, priorityKeys[k]))]

\* The second loop: the match in each column whose header names a phone.
PhoneColumnMatches(row) ==
  [i \in 1..Len(row) |->
     IF IsPhoneKey(row[i][1]) THEN PhoneMatch(row[i][2]) ELSE <<>>]

\* The third loop: the match in each column.
AnyColumnMatches(row) == [i \in 1..Len(row) |-> PhoneMatch(row[i][2])]

\* Mutant of getTel: the scan of the phone columns comes first.
getTel_ScanFirst(row) ==
  FirstNonEmpty(PhoneColumnMatches(row) \o PriorityValues(row)
                \o AnyColumnMatches(row))

getTel(row) ==
  FirstNonEmpty(PriorityValues(row) \o PhoneColumnMatches(row)
                \o AnyColumnMatches(row))

\* The lines of a block after its title: the fields that are not empty.
FieldLines(address, tel, hours, services) ==
  (IF address # <<>> THEN <<<<"NAKAGURO", "Juu", "Sho", "FWCOLON">> \o address>> ELSE <<>>)
  \o (IF tel # <<>> THEN <<<<"NAKAGURO", "Den", "Wa", "FWCOLON">> \o tel>> ELSE <<>>)
  \o (IF hours # <<>> THEN <<<<"NAKAGURO", "Ei", "Gyou", "Toki", "Aida", "FWCOLON">> \o hours>> ELSE <<>>)
  \o (IF services # <<>> THEN <<<<"NAKAGURO", "SA", "CHOUON", "BI", "SU", "FWCOLON">> \o services>> ELSE <<>>)

answerForSinglePharmacy(row, title) ==
  Join(<<<<"LBRACKET", "1", "RBRACKET", " ">> \o title>>
       \o FieldLines(AddressOf(row), getTel(row), getOpeningHours(row),
                     Join(getDisplayTags(row), <<" ", "/", " ">>)),
       <<LF>>)

\* String(n) for a number n >= 0
RECURSIVE DecimalString(_)
DecimalString(n) ==
  LET d == <<"0", "1", "2", "3", "4", "5", "6", "7", "8", "9">>[(n % 10) + 1] IN
  IF n < 10 THEN <<d>> ELSE Append(DecimalString(n \div 10), d)

\* Mutant of top5: every row.
top5_All(rows) == rows

\* rows.slice(0, 5)
top5(rows) == SubSeq(rows, 1, Min(5, Len(rows)))

\* The callback of top5.map: the block of row, the idx-th of the list
\* (idx counts from 0).
PromptBlock(row, idx) ==
  Join(<<<<"LBRACKET">> \o DecimalString(idx + 1) \o <<"RBRACKET", " ">> \o Get(row, K_Name)>>
       \o FieldLines(Trim(AddressOf(row)), getTel(row), getOpeningHours(row),
                     Join(getDisplayTags(row), <<" ", "/", " ">>)),
       <<LF>>)

formatPharmaciesForPrompt(rows) ==
  Join([k \in 1..Len(top5(rows)) |-> PromptBlock(top5(rows)[k], k - 1)],
       <<LF, LF>>)

(***************************************************************************)
(* Name comparison (normalizeForNameCompare, detectChainName)              *)
(***************************************************************************)
\* for (const p of pats) s = s.replace(new RegExp(p, "g"), "")
RECURSIVE RemoveEach(_, _)
RemoveEach(s, pats) ==
  IF pats = <<>> THEN s
  ELSE RemoveEach(ReplaceAll(s, Head(pats), <<>>), Tail(pats))

removePhrases ==
  << <<"ni", "tsu", "i", "te", "Oshi", "e", "te">>,
     <<"ni", "tsu", "i", "te", "Shiri", "ri", "ta", "i">>,
     <<"ni", "tsu", "i", "te">>,
     <<"wo", "Oshi", "e", "te">>,
     <<"ga", "Shiri", "ri", "ta", "i">>,
     <<"Shiri", "ri", "ta", "i">>,
     <<"Oshi", "e", "te">>,
     <<"no", "Ten", "Ho", "wo", "Shiri", "ri", "ta", "i">>,
     <<"no", "Ten", "Ho">>,
     <<"Kai", "i", "te", "i", "ru">>,
     <<"Kai", "i", "te", "ru">>,
     <<"Sora", "i", "te", "i", "ru">>,
     <<"Sora", "i", "te", "ru">>,
     <<"ya", "xtsu", "te", "i", "ru">>,
     <<"ya", "xtsu", "te", "ru">>,
     <<"Ei", "Gyou", "shi", "te", "i", "ru">>,
     <<"Ei", "Gyou", "Naka">> >>

normalizeForNameCompare(text) ==
  Trim(RemoveWhiteSpace(RemoveEach(RemoveEach(text, removePhrases), genericWords)))

\* The characters the dot of a regular expression does not match.
LineTerminators == {LF, CR}

\* 薬局
YAKKYOKU == <<"Yaku", "Kyoku">>

\* The positions j > i where 薬局 starts and that .+? can reach from i.
ChainEnds(s, i) ==
  {j \in (i + 1)..(Len(s) - 1) :
     /\ SubSeq(s, j, j + 1) = YAKKYOKU
     /\ \A k \in i..(j - 1) : s[k] \notin LineTerminators}

\* qRaw.match(/(.+?薬局)/): m[1] trimmed, the empty string for null.  The
\* match starts at the leftmost position that has one and, being lazy,
\* ends at the first 薬局 it can reach.
detectChainName(qRaw) ==
  LET starts == {i \in 1..Len(qRaw) : ChainEnds(qRaw, i) # {}} IN
  IF starts = {} THEN <<>>
  ELSE LET i == CHOOSE x \in starts : \A y \in starts : x <= y
           j == CHOOSE x \in ChainEnds(qRaw, i) :
                  \A y \in ChainEnds(qRaw, i) : x <= y
       IN  Trim(SubSeq(qRaw, i, j + 1))

(***************************************************************************)
(* The chat request handler (POST of app/api/chat/route.ts)                *)
(*                                                                         *)
(* The handler runs from one await to the next and from one answer path    *)
(* to the next: ret.pc is its position, ret.tried the answer paths it has  *)
(* entered, in order.                                                      *)
(***************************************************************************)
\* 該当の薬局
TITLE_FALLBACK == <<"Gaitou", "Tou", "no", "Yaku", "Kyoku">>

\* The fixed reply of the catch block, and the reply that stands in for a
\* completion with no content; they are never looked into, one token each.
ERROR_REPLY == <<"ServerErrorReply">>
NO_CONTENT_REPLY == <<"NoContentReply">>

\* 緊急避妊
KINKYUU_HININ == <<"Kin_urgent", "Kyuu_urgent", "Hi", "Nin">>

\* records.find(...) of the direct name match: the index of the first record
\* whose normalized name is not empty and occurs in the normalized message,
\* 0 when there is none.
DirectRow(records, userMessage) ==
  LET hits == {i \in 1..Len(records) :
                 /\ Get(records[i], K_Name) # <<>>
                 /\ Len(normalizeForNameCompare(Get(records[i], K_Name))) > 0
                 /\ Includes(normalizeForNameCompare(userMessage),
                             normalizeForNameCompare(Get(records[i], K_Name)))}
  IN  IF hits = {} THEN 0 ELSE CHOOSE i \in hits : \A j \in hits : i <= j

\* records.filter((row) => name.includes(chainName))
DirectMatches(records, chainName) ==
  LET Keep(row) == Includes(Get(row, K_Name), chainName)
  IN  SelectSeq(records, Keep)

\* Mutant of IsUniqueMatch: any match will do.
IsUniqueMatch_Any(directMatches) == Len(directMatches) >= 1

\* directMatches.length === 1
IsUniqueMatch(directMatches) == Len(directMatches) = 1

\* ((row["薬局名"] as string) ?? fallback).trim()
TitleOf(row, fallback) ==
  IF HasKey(row, K_Name) THEN Trim(Get(row, K_Name)) ELSE Trim(fallback)

\* The sheet the handler fetches: any of these lines, under this header.
\*   桜薬局 / 呉羽 / 在宅
\*   本薬局呉羽 / 呉羽 / 在宅
\*   本薬局婦中 / 婦中 / 抗原
\*   桜薬局 / 婦中 / 抗原
SheetHeader == <<"Yaku", "Kyoku", "Mei", ",", "Chi", "Iki", ",", "Sou", "Gou", "TA", "GU">>

SheetLines ==
  << <<"Sakura", "Yaku", "Kyoku", ",", "Kure", "Hane", ",", "Zai", "Taku">>,
     <<"Hon", "Yaku", "Kyoku", "Kure", "Hane", ",", "Kure", "Hane", ",", "Zai", "Taku">>,
     <<"Hon", "Yaku", "Kyoku", "Fujin", "Naka", ",", "Fujin", "Naka", ",", "Kou", "Gen">>,
     <<"Sakura", "Yaku", "Kyoku", ",", "Fujin", "Naka", ",", "Kou", "Gen">> >>

SheetTexts ==
  {Join(<<SheetHeader>> \o Pick(SheetLines, idx, 1), <<LF>>) :
     idx \in SUBSET (1..Len(SheetLines))}

\* The last message of the request: none, 桜薬局について教えて, 本薬局,
\* 本薬局呉羽と桜薬局, 婦中の薬局, 呉羽 在宅, 抗原, 緊急避妊
UserMessages ==
  { <<>>,
    <<"Sakura", "Yaku", "Kyoku", "ni", "tsu", "i", "te", "Oshi", "e", "te">>,
    <<"Hon", "Yaku", "Kyoku">>,
    <<"Hon", "Yaku", "Kyoku", "Kure", "Hane", "to", "Sakura", "Yaku", "Kyoku">>,
    <<"Fujin", "Naka", "no", "Yaku", "Kyoku">>,
    <<"Kure", "Hane", " ", "Zai", "Taku">>,
    <<"Kou", "Gen">>,
    <<"Kin_urgent", "Kyuu_urgent", "Hi", "Nin">> }

\* What completion.choices[0]?.message?.content can be: nothing, or a text.
CompletionContents == { <<>>, <<<<"LBRACKET", "1", "RBRACKET", " ", "Sakura", "Yaku", "Kyoku">>>>, <<<<"Sakura", "Yaku", "Kyoku">>>> }

InitPost ==
  /\ op = "POST"
  /\ \E csv \in SheetTexts, m \in UserMessages :
       arg = [csv |-> csv, userMessage |-> m]
  /\ ret = [pc |-> "fetch", records |-> <<>>, tried |-> <<>>,
            search |-> <<>>, prompt |-> <<>>, status |-> 0, reply |-> <<>>]
  /\ done = FALSE

\* const res = await fetch(SHEET_URL); const records = parseCsv(csv)
FetchSheet ==
  /\ op = "POST"
  /\ ret.pc = "fetch"
  /\ ret' = [ret EXCEPT !.pc = "direct", !.records = parseCsv(arg.csv)]
  /\ UNCHANGED <<op, arg, done>>

\* SHEET_URL is not set, or the fetch fails: the catch block replies.
FetchFails ==
  /\ op = "POST"
  /\ ret.pc = "fetch"
  /\ ret' = [ret EXCEPT !.pc = "done", !.status = 500, !.reply = ERROR_REPLY]
  /\ done' = TRUE
  /\ UNCHANGED <<op, arg>>

\* (1) the direct name match
DirectNameMatch ==
  /\ op = "POST"
  /\ ret.pc = "direct"
  /\ LET i == DirectRow(ret.records, arg.userMessage)
         entered == [ret EXCEPT !.tried = Append(@, "direct")]
     IN  IF i # 0
         THEN /\ ret' = [entered EXCEPT
                           !.pc = "done",
                           !.status = 200,
                           !.reply = answerForSinglePharmacy(
                                       ret.records[i],
                                       TitleOf(ret.records[i], TITLE_FALLBACK))]
              /\ done' = TRUE
         ELSE /\ ret' = [entered EXCEPT !.pc = "chain"]
              /\ done' = done
  /\ UNCHANGED <<op, arg>>

\* (2) the chain name and the records whose name contains it
ChainNameMatch ==
  /\ op = "POST"
  /\ ret.pc = "chain"
  /\ LET chainName == detectChainName(arg.userMessage)
         directMatches == DirectMatches(ret.records, chainName)
         entered == [ret EXCEPT !.tried = Append(@, "chain")]
     IN  IF chainName # <<>> /\ IsUniqueMatch(directMatches)
         THEN /\ ret' = [entered EXCEPT
                           !.pc = "done",
                           !.status = 200,
                           !.reply = answerForSinglePharmacy(
                                       directMatches[1],
                                       TitleOf(directMatches[1], chainName))]
              /\ done' = TRUE
         ELSE /\ ret' = [entered EXCEPT !.pc = "search"]
              /\ done' = done
  /\ UNCHANGED <<op, arg>>

\* The content of the user message of the completion request, by its parts:
\* the question, the count and the area word of the introduction, the list
\* and whether the caution on emergency contraception is there.
PromptOf(out) ==
  [question |-> arg.userMessage,
   total |-> Len(out.result),
   areaWord |-> IF Len(out.freeWords) > 0 THEN out.freeWords[1] ELSE <<>>,
   listText |-> formatPharmaciesForPrompt(out.result),
   caution |-> KINKYUU_HININ \in Range(out.requestedTags) /\ Len(out.result) = 0]

\* (3) the search
SearchPath ==
  /\ op = "POST"
  /\ ret.pc = "search"
  /\ \E out \in searchPharmacies(ret.records, arg.userMessage) :
       LET entered == [ret EXCEPT !.tried = Append(@, "search"),
                                  !.search = <<out>>]
       IN  IF Len(out.result) = 1
           THEN /\ ret' = [entered EXCEPT
                             !.pc = "done",
                             !.status = 200,
                             !.reply = answerForSinglePharmacy(
                                         out.result[1],
                                         TitleOf(out.result[1], TITLE_FALLBACK))]
                /\ done' = TRUE
           ELSE /\ ret' = [entered EXCEPT !.pc = "completion",
                                          !.prompt = <<PromptOf(out)>>]
                /\ done' = done
  /\ UNCHANGED <<op, arg>>

\* await openai.chat.completions.create(...) and the reply made of it
Completion ==
  /\ op = "POST"
  /\ ret.pc = "completion"
  /\ \E content \in CompletionContents :
       ret' = [ret EXCEPT
                 !.tried = Append(@, "completion"),
                 !.pc = "done",
                 !.status = 200,
                 !.reply = IF content = <<>> THEN NO_CONTENT_REPLY
                           ELSE content[1]]
  /\ done' = TRUE
  /\ UNCHANGED <<op, arg>>

\* The completion request throws: the catch block replies.
CompletionFails ==
  /\ op = "POST"
  /\ ret.pc = "completion"
  /\ ret' = [ret EXCEPT !.tried = Append(@, "completion"),
                        !.pc = "done", !.status = 500, !.reply = ERROR_REPLY]
  /\ done' = TRUE
  /\ UNCHANGED <<op, arg>>

NextPost ==
  \/ FetchSheet
  \/ FetchFails
  \/ DirectNameMatch
  \/ ChainNameMatch
  \/ SearchPath
  \/ Completion
  \/ CompletionFails

SpecPost == InitPost /\ [][NextPost]_vars

(***************************************************************************)
(* Claims on the chat request handler                                      *)
(***************************************************************************)
\* The answer paths in the order the handler is to try them.
AnswerPathOrder == <<"direct", "chain", "search", "completion">>

\* The records whose normalized name occurs in the normalized message.
DirectlyNamed ==
  {i \in 1..Len(ret.records) :
     LET n == normalizeForNameCompare(Get(ret.records[i], K_Name)) IN
     n # <<>> /\ Includes(normalizeForNameCompare(arg.userMessage), n)}

\* The records whose name contains the chain name of the message.
ChainNamed ==
  {i \in 1..Len(ret.records) :
     /\ detectChainName(arg.userMessage) # <<>>
     /\ Includes(Get(ret.records[i], K_Name), detectChainName(arg.userMessage))}

\* The deterministic answer on record row.
SingleAnswer(row) == answerForSinglePharmacy(row, Trim(Get(row, K_Name)))

\* C11: the handler enters the answer paths in the order direct name match,
\* chain name, search, completion, each at most once and none skipped.  On a
\* request whose sheet was fetched: when the message names a record directly
\* only the direct path is entered and the reply is the deterministic answer
\* on the first such record; otherwise, when exactly one record's name
\* contains the chain name, only the direct and chain paths are entered and
\* the reply is the deterministic answer on that record; otherwise the search
\* runs, and when it returns exactly one record the reply is the
\* deterministic answer on it and no completion is requested.
C11_AnswerPathOrder ==
  /\ ret.tried = SubSeq(AnswerPathOrder, 1, Len(ret.tried))
  /\ (ret.pc = "done" /\ Len(ret.tried) > 0) =>
       IF DirectlyNamed # {}
       THEN /\ ret.tried = <<"direct">>
            /\ ret.status = 200
            /\ \E i \in DirectlyNamed :
                 /\ \A j \in DirectlyNamed : i <= j
                 /\ ret.reply = SingleAnswer(ret.records[i])
       ELSE IF Cardinality(ChainNamed) = 1
       THEN /\ ret.tried = <<"direct", "chain">>
            /\ ret.status = 200
            /\ \A i \in ChainNamed : ret.reply = SingleAnswer(ret.records[i])
       ELSE /\ Len(ret.tried) >= 3
            /\ Len(ret.search) = 1
            /\ Len(ret.search[1].result) = 1 =>
                 /\ ret.tried = <<"direct", "chain", "search">>
                 /\ ret.status = 200
                 /\ ret.reply = SingleAnswer(ret.search[1].result[1])
            /\ Len(ret.search[1].result) # 1 => Len(ret.tried) = 4

\* The message names no record directly, its chain name is in the name of
\* exactly one record of a sheet that has more records, and the handler has
\* replied.
C11_Witness ==
  /\ op = "POST"
  /\ ret.pc = "done"
  /\ ret.tried = <<"direct", "chain">>
  /\ Len(ret.records) >= 2
  /\ ret.reply = SingleAnswer(ret.records[2])

(***************************************************************************)
(* formatPharmaciesForPrompt invoked on a list of records                  *)
(***************************************************************************)
MaxPromptRows == 6

\* Records with distinct names: ア with an address, ウ with a service tag,
\* 桜 with nothing else.
PromptRows ==
  { <<<<K_Name, <<"A">>>>, <<K_Address, <<"Kure", "Hane">>>>>>,
    <<<<K_Name, <<"U">>>>, <<K_SougouTag, <<"Zai", "Taku">>>>>>,
    <<<<K_Name, <<"Sakura">>>>>> }

InitPrompt ==
  /\ op = "formatPharmaciesForPrompt"
  /\ \E rows \in SeqsUpTo(PromptRows, MaxPromptRows) : arg = [rows |-> rows]
  /\ ret = <<>>
  /\ done = FALSE

\* const listText = formatPharmaciesForPrompt(rows)
FormatPromptCall ==
  /\ op = "formatPharmaciesForPrompt"
  /\ ~done
  /\ ret' = formatPharmaciesForPrompt(arg.rows)
  /\ done' = TRUE
  /\ UNCHANGED <<op, arg>>

NextPrompt == FormatPromptCall

SpecPrompt == InitPrompt /\ [][NextPrompt]_vars

\* The positions of s where a blank line starts: two line feeds in a row.
BlankLines(s) == {i \in 1..(Len(s) - 1) : s[i] = LF /\ s[i + 1] = LF}

\* The k-th smallest element of a set of numbers.
KthOf(P, k) == CHOOSE p \in P : Cardinality({q \in P : q < p}) = k - 1

\* The pieces of s between its blank lines.
BlocksOf(s) ==
  LET P == BlankLines(s) IN
  [k \in 1..(Cardinality(P) + 1) |->
     SubSeq(s,
            IF k = 1 THEN 1 ELSE KthOf(P, k - 1) + 2,
            IF k = Cardinality(P) + 1 THEN Len(s) ELSE KthOf(P, k) - 1)]

\* s begins with p.
StartsWith(s, p) == Len(s) >= Len(p) /\ SubSeq(s, 1, Len(p)) = p

\* s without its first n characters.
Drop(s, n) == SubSeq(s, n + 1, Len(s))

\* C12: the text formatPharmaciesForPrompt returns for n records is empty
\* when n = 0 and otherwise made of exactly min(5, n) blocks separated by
\* one blank line each; block k starts with the marker 【k】 and, after the
\* marker, is the text the k-th record gets when it is rendered alone, so
\* the blocks follow the input order and no record after the fifth
\* contributes.
C12_PromptBlocks ==
  done =>
    LET n == Len(arg.rows)
        blocks == BlocksOf(ret)
    IN  /\ n = 0 => ret = <<>>
        /\ n > 0 =>
             /\ Len(blocks) = Min(5, n)
             /\ \A k \in 1..Len(blocks) :
                  /\ StartsWith(blocks[k], <<"LBRACKET">> \o DecimalString(k) \o <<"RBRACKET">>)
                  /\ StartsWith(formatPharmaciesForPrompt(<<arg.rows[k]>>), <<"LBRACKET", "1", "RBRACKET">>)
                  /\ Drop(blocks[k], 3)
                       = Drop(formatPharmaciesForPrompt(<<arg.rows[k]>>), 3)

\* More than five records, the sixth with a name none of the first five
\* has, have been rendered.
C12_Witness ==
  /\ op = "formatPharmaciesForPrompt"
  /\ done
  /\ Len(arg.rows) > 5
  /\ \A k \in 1..5 : Get(arg.rows[k], K_Name) # Get(arg.rows[6], K_Name)
  /\ Len(BlocksOf(ret)) = 5

(***************************************************************************)
(* getTel invoked on a row                                                 *)
(***************************************************************************)
MaxTelColumns == 2

\* Headers: the well-known 電話番号, TEL and 連絡先電話番号; tel and 電話メモ,
\* which name a phone without being well-known; 住所, which does not.
TelHeaders ==
  { <<"Den", "Wa", "Ban", "Gou_no">>, <<"T_", "E_", "L_">>, <<"Ren", "Raku", "Saki", "Den", "Wa", "Ban", "Gou_no">>, <<"t_", "e_", "l_">>, <<"Den", "Wa", "ME", "MO">>, <<"Juu", "Sho">> }

\* Cell values: blank, a phone number between spaces, a phone number inside
\* a text and followed by one more digit, digits that are no phone number.
TelValues ==
  { <<" ">>, <<" ", "0", "7", "6", "-", "1", "-", "2", "3", "4", " ">>, <<"x", "0", "7", "6", "1", "-", "2", "-", "3", "4", "5", "6", "7">>, <<"1", "2", "-", "3", "-", "4", "5", "6">> }

\* The rows of at most MaxTelColumns columns under distinct headers.
TelRows ==
  {r \in SeqsUpTo(TelHeaders \X TelValues, MaxTelColumns) :
     \A i, j \in 1..Len(r) : r[i][1] = r[j][1] => i = j}

InitTel ==
  /\ op = "getTel"
  /\ \E row \in TelRows : arg = [row |-> row]
  /\ ret = <<>>
  /\ done = FALSE

\* const tel = getTel(row)
GetTelCall ==
  /\ op = "getTel"
  /\ ~done
  /\ ret' = getTel(arg.row)
  /\ done' = TRUE
  /\ UNCHANGED <<op, arg>>

NextTel == GetTelCall

SpecTel == InitTel /\ [][NextTel]_vars

\* t has the shape of a phone number: 0, one to four digits, a hyphen, one
\* to four digits, a hyphen, three or four digits.
PhoneShaped(t) ==
  \E a \in 1..4, b \in 1..4, c \in 3..4 :
    /\ Len(t) = 1 + a + 1 + b + 1 + c
    /\ t[1] = "0"
    /\ \A i \in 2..(1 + a) : t[i] \in Digits
    /\ t[2 + a] = "-"
    /\ \A i \in (3 + a)..(2 + a + b) : t[i] \in Digits
    /\ t[3 + a + b] = "-"
    /\ \A i \in (4 + a + b)..(3 + a + b + c) : t[i] \in Digits

\* The phone-shaped pieces of v, as <<start, end>>.
ShapedPieces(v) ==
  {p \in (1..Len(v)) \X (1..Len(v)) :
     p[1] <= p[2] /\ PhoneShaped(SubSeq(v, p[1], p[2]))}

\* The first phone-shaped piece of v: the leftmost, and the longest of those
\* that start there; the empty string when v has none.
FirstShaped(v) ==
  IF ShapedPieces(v) = {} THEN <<>>
  ELSE LET p == CHOOSE x \in ShapedPieces(v) :
                  \A y \in ShapedPieces(v) :
                    x[1] < y[1] \/ (x[1] = y[1] /\ x[2] >= y[2])
       IN  SubSeq(v, p[1], p[2])

\* The least element of a set of numbers that is not empty.
Least(S) == CHOOSE x \in S : \A y \in S : x <= y

\* The value getTel is to return for row, given which headers name a phone
\* column: the trimmed value of the first well-known header whose value is
\* not blank; else the first phone-shaped piece of the first phone column
\* that has one; else that of the first column that has one; else nothing.
TelByPriority(row, NamesPhone(_)) ==
  LET known == {k \in 1..Len(priorityKeys) : Trim(Get(row, priorityKeys[k])) # <<>>}
      phoneCols == {i \in 1..Len(row) :
                      NamesPhone(row[i][1]) /\ FirstShaped(row[i][2]) # <<>>}
      anyCols == {i \in 1..Len(row) : FirstShaped(row[i][2]) # <<>>}
  IN  IF known # {} THEN Trim(Get(row, priorityKeys[Least(known)]))
      ELSE IF phoneCols # {} THEN FirstShaped(row[Least(phoneCols)][2])
      ELSE IF anyCols # {} THEN FirstShaped(row[Least(anyCols)][2])
      ELSE <<>>

\* The header contains 電話 or TEL, as written.
ContainsDenwaOrTEL(key) == Includes(key, <<"Den", "Wa">>) \/ Includes(key, <<"T_", "E_", "L_">>)

\* The header contains 電話 or, in any letter case, TEL.
ContainsDenwaOrTelAnyCase(key) ==
  \/ Includes(key, <<"Den", "Wa">>)
  \/ \E t \in [1..3 -> {"T_", "t_", "E_", "e_", "L_", "l_"}] :
       /\ t[1] \in {"T_", "t_"} /\ t[2] \in {"E_", "e_"} /\ t[3] \in {"L_", "l_"}
       /\ Includes(key, t)

\* C13 as stated: getTel returns the value by priority, the phone columns
\* being those whose header contains 電話 or TEL.
C13_TelPriority ==
  done => ret = TelByPriority(arg.row, ContainsDenwaOrTEL)

\* C13, amended: getTel returns the value by priority, the phone columns
\* being those whose header contains 電話 or, in any letter case, TEL.
C13_TelPriorityAnyCase ==
  done => ret = TelByPriority(arg.row, ContainsDenwaOrTelAnyCase)

\* No well-known header has a value, a column that does not name a phone
\* holds a phone number before a phone column does, and getTel has returned
\* the phone column's number.
C13_Witness ==
  /\ op = "getTel"
  /\ done
  /\ Len(arg.row) >= 2
  /\ \A k \in 1..Len(priorityKeys) : Trim(Get(arg.row, priorityKeys[k])) = <<>>
  /\ arg.row[1][1] = <<"Juu", "Sho">>
  /\ FirstShaped(arg.row[1][2]) # <<>>
  /\ ret # <<>>
  /\ ret # FirstShaped(arg.row[1][2])

(***************************************************************************)
(* tokenizeQuery and extractConditions invoked on a query                  *)
(***************************************************************************)
\* The keywords of the weekday table.
WeekdayKeywords ==
  UNION {Range(WEEKDAY_MAP[i].keywords) : i \in 1..Len(WEEKDAY_MAP)}

\* The other words a query of the model is made of: 在宅 抗原検査 訪問
\* ドラッグストア ドラッグ 呉羽 婦中町, or no word
OtherQueryWords ==
  { <<>>,
    <<"Zai", "Taku">>,
    <<"Kou", "Gen", "Ken", "Sa">>,
    <<"Hou", "Mon">>,
    <<"DO", "RA", "XTSU", "GU", "SU", "TO", "A">>,
    <<"DO", "RA", "XTSU", "GU">>,
    <<"Kure", "Hane">>,
    <<"Fujin", "Naka", "Town">> }

\* What stands between the two words of a query: nothing, or a space.
WordGaps == { <<>>, <<SP>> }

InitConditions ==
  /\ op = "extractConditions"
  /\ \E a \in WeekdayKeywords \cup OtherQueryWords,
        b \in WeekdayKeywords \cup OtherQueryWords, gap \in WordGaps :
       arg = [a |-> a, gap |-> gap, b |-> b, q |-> a \o gap \o b]
  /\ ret = [words |-> <<>>, conditions |-> <<>>]
  /\ done = FALSE

\* const words = tokenizeQuery(q)
TokenizeQueryCall ==
  /\ op = "extractConditions"
  /\ ret.words = <<>>
  /\ ret' = [ret EXCEPT !.words = <<tokenizeQuery(arg.q)>>]
  /\ done' = (ret.conditions # <<>>)
  /\ UNCHANGED <<op, arg>>

\* const { requestedTags, freeWords, weekdayTags, hasDrugstoreWord } =
\*   extractConditions(q)
ExtractConditionsCall ==
  /\ op = "extractConditions"
  /\ ret.conditions = <<>>
  /\ ret' = [ret EXCEPT !.conditions = <<extractConditions(arg.q)>>]
  /\ done' = (ret.words # <<>>)
  /\ UNCHANGED <<op, arg>>

NextConditions == TokenizeQueryCall \/ ExtractConditionsCall

SpecConditions == InitConditions /\ [][NextConditions]_vars

\* The canonical day of a keyword of the weekday table.
CanonicalDay(d) ==
  WEEKDAY_MAP[CHOOSE i \in 1..Len(WEEKDAY_MAP) :
                d \in Range(WEEKDAY_MAP[i].keywords)].canonical

\* C14: a query that is exactly one keyword of the weekday table tokenizes
\* to exactly one token, and extractConditions returns its canonical day as
\* the only weekday tag, with no free word and no requested tag.
C14_WeekdayProtected ==
  (op = "extractConditions" /\ arg.q \in WeekdayKeywords) =>
    /\ ret.words # <<>> => Len(ret.words[1]) = 1
    /\ ret.conditions # <<>> =>
         /\ ret.conditions[1].weekdayTags = <<CanonicalDay(arg.q)>>
         /\ ret.conditions[1].freeWords = <<>>
         /\ ret.conditions[1].requestedTags = <<>>


\* The word contains a keyword of the weekday table.
IsWeekdayWord(w) == \E d \in WeekdayKeywords : Includes(w, d)

\* The word contains ドラッグ (and so ドラッグストア, when it contains that).
IsDrugWord(w) == Includes(w, <<"DO", "RA", "XTSU", "GU">>)

\* The word contains a keyword of the service-tag table.
IsServiceWord(w) ==
  \E i \in 1..Len(SERVICE_TAGS) :
    \E k \in Range(SERVICE_TAGS[i].keywords) : Includes(w, k)

\* The class of a word: the first of weekday, drugstore, service it matches,
\* free when it matches none.
ClassOf(w) ==
  IF IsWeekdayWord(w) THEN "weekday"
  ELSE IF IsDrugWord(w) THEN "drugstore"
  ELSE IF IsServiceWord(w) THEN "service"
  ELSE "free"

\* The words of a list that are of class cls, in order.
WordsOfClass(words, cls) ==
  LET Keep(w) == ClassOf(w) = cls IN SelectSeq(words, Keep)

\* The canonical day of the first entry of the weekday table the word
\* contains a keyword of.
DayOfWord(w) ==
  WEEKDAY_MAP[Least({i \in 1..Len(WEEKDAY_MAP) :
                       \E d \in Range(WEEKDAY_MAP[i].keywords) : Includes(w, d)})
             ].canonical

\* The tag of the first entry of the service-tag table the word contains a
\* keyword of.
TagOfWord(w) ==
  SERVICE_TAGS[Least({i \in 1..Len(SERVICE_TAGS) :
                        \E k \in Range(SERVICE_TAGS[i].keywords) : Includes(w, k)})
              ].tag

\* The elements of s without repetition, each where it occurs first.
FirstOccurrences(s) ==
  Pick(s, {i \in 1..Len(s) : \A j \in 1..(i - 1) : s[j] # s[i]}, 1)

\* C15: each word of the tokenized query is in exactly one class, the first
\* of weekday, drugstore keyword, service tag it matches and free word when
\* it matches none, and contributes to the bucket of its class only: the
\* weekday tags are the days of the weekday words, the drugstore flag is set
\* iff there is a drugstore word, the requested tags are the tags of the
\* service words, and the free words are exactly the free words, in order.
C15_OneBucketByPriority ==
  (op = "extractConditions" /\ ret.words # <<>> /\ ret.conditions # <<>>) =>
    LET words == ret.words[1]
        c == ret.conditions[1]
        days == WordsOfClass(words, "weekday")
        svcs == WordsOfClass(words, "service")
    IN  /\ c.weekdayTags
             = FirstOccurrences([i \in 1..Len(days) |-> DayOfWord(days[i])])
        /\ c.hasDrugstoreWord = (WordsOfClass(words, "drugstore") # <<>>)
        /\ c.requestedTags
             = FirstOccurrences([i \in 1..Len(svcs) |-> TagOfWord(svcs[i])])
        /\ c.freeWords = WordsOfClass(words, "free")

\* A word that contains a weekday keyword and a service keyword has been
\* classified: 月曜在宅 gives the weekday tag and no requested tag.
C15_Witness ==
  /\ op = "extractConditions"
  /\ ret.words = << <<<<"Getsu", "You", "Zai", "Taku">>>> >>
  /\ ret.conditions # <<>>
  /\ ret.conditions[1].weekdayTags = <<<<"Getsu", "You">>>>
  /\ ret.conditions[1].requestedTags = <<>>
  /\ ret.conditions[1].freeWords = <<>>

(***************************************************************************)
(* searchPharmacies invoked on records that two location words can match   *)
(***************************************************************************)
\* The sheet.
\*   桜薬局 / 富山 / 住所 呉羽 / no tag
\*   本薬局 / 富山 / 住所 婦中 / 在宅
\*   桜薬局 / 呉羽 / 所在地 呉羽 / 在宅
\*   本薬局 / 婦中 / no address / 抗原
LocationCorpus ==
  << <<<<K_Name, <<"Sakura", "Yaku", "Kyoku">>>>, <<K_Area, <<"Tomi", "Yama">>>>, <<K_Address, <<"Kure", "Hane">>>>, <<K_SougouTag, <<>>>>>>,
     <<<<K_Name, <<"Hon", "Yaku", "Kyoku">>>>, <<K_Area, <<"Tomi", "Yama">>>>, <<K_Address, <<"Fujin", "Naka">>>>, <<K_SougouTag, <<"Zai", "Taku">>>>>>,
     <<<<K_Name, <<"Sakura", "Yaku", "Kyoku">>>>, <<K_Area, <<"Kure", "Hane">>>>, <<K_Location, <<"Kure", "Hane">>>>, <<K_SougouTag, <<"Zai", "Taku">>>>>>,
     <<<<K_Name, <<"Hon", "Yaku", "Kyoku">>>>, <<K_Area, <<"Fujin", "Naka">>>>, <<K_SougouTag, <<"Kou", "Gen">>>>>> >>

\* The words of a query: 富山市 呉羽 婦中町 在宅, or no word
LocationQueryWords ==
  { <<>>, <<"Tomi", "Yama", "City">>, <<"Kure", "Hane">>, <<"Fujin", "Naka", "Town">>, <<"Zai", "Taku">> }

InitLocation ==
  /\ op = "searchPharmacies"
  /\ \E idx \in SUBSET (1..Len(LocationCorpus)),
        w1 \in LocationQueryWords, w2 \in LocationQueryWords,
        w3 \in LocationQueryWords :
       arg = [records |-> Pick(LocationCorpus, idx, 1),
              q |-> w1 \o <<SP>> \o w2 \o <<SP>> \o w3]
  /\ ret = [base |-> <<>>, more |-> <<>>]
  /\ done = FALSE

NextLocation == SearchCall

SpecLocation == InitLocation /\ [][NextLocation]_vars

\* The haystack of a record contains the word.
InHaystack(row, w) ==
  Includes(Get(row, K_Area) \o <<SP>>
             \o (IF HasKey(row, K_Address) THEN Get(row, K_Address)
                 ELSE Get(row, K_Location))
             \o <<SP>> \o Get(row, K_Name),
           w)

\* The records that are to enter the service-tag filter for the free words:
\* (a) all when there is no free word, (b) those whose haystack contains
\* every free word when there is one, (c) else those whose haystack contains
\* the first free word.
EnteringTagFilter(records, freeWords) ==
  LET HasAll(row) == \A i \in 1..Len(freeWords) : InHaystack(row, freeWords[i])
      HasFirst(row) == InHaystack(row, freeWords[1])
  IN  IF freeWords = <<>> THEN records
      ELSE IF SelectSeq(records, HasAll) # <<>> THEN SelectSeq(records, HasAll)
      ELSE SelectSeq(records, HasFirst)

\* C16: the records that enter the service-tag filter are those of (a), (b),
\* (c), and the result holds exactly those of them that the later filters
\* keep; in particular it is empty when the later filters keep none of
\* them, whatever the first free word alone would have matched.
C16_LocationRelaxation ==
  (op = "searchPharmacies" /\ Len(ret.base) = 1) =>
    LET c == extractConditions(arg.q)
        entering == EnteringTagFilter(arg.records, c.freeWords)
        Later(row) ==
          /\ Range(c.requestedTags) \subseteq Range(getTags(row))
          /\ PassesOtherFilters(row, c)
        kept == SelectSeq(entering, Later)
    IN  /\ ret.base[1].freeWords = c.freeWords
        /\ LocationStage(arg.records, c.freeWords) = entering
        /\ Len(ret.base[1].result) = Len(kept)
        /\ \A i \in 1..Len(kept) :
             Count(ret.base[1].result, kept[i]) = Count(kept, kept[i])

\* No record has both free words and the search has gone on with the
\* records that have the first: 呉羽 婦中町 在宅 asked of all four records
\* returns the record of the region 呉羽.
C16_Witness ==
  /\ op = "searchPharmacies"
  /\ Len(ret.base) = 1
  /\ arg.records = LocationCorpus
  /\ ret.base[1].freeWords = <<<<"Kure", "Hane">>, <<"Fujin", "Naka">>>>
  /\ ret.base[1].requestedTags = <<ZAITAKU>>
  /\ ret.base[1].result = <<LocationCorpus[3]>>

\* Both free words match a record that the tag filter drops, and the result
\* is empty although the first free word alone matches a record with the
\* tag: 富山市 呉羽 在宅 asked of the first two records.
C16_WitnessNoLateRelaxation ==
  /\ op = "searchPharmacies"
  /\ Len(ret.base) = 1
  /\ arg.records = <<LocationCorpus[1], LocationCorpus[2]>>
  /\ ret.base[1].freeWords = <<<<"Tomi", "Yama">>, <<"Kure", "Hane">>>>
  /\ ret.base[1].requestedTags = <<ZAITAKU>>
  /\ ret.base[1].result = <<>>

(***************************************************************************)
(* Claims on the weekday and drugstore filters of searchPharmacies         *)
(***************************************************************************)
\* The column the weekday filter is to read for the requested tags.
ColumnFor(requestedTags) ==
  IF ZAITAKU \in Range(requestedTags) THEN K_WeekdayHome ELSE K_WeekdayOut

\* Every weekday tag is a substring of the value the row has in the column.
DaysInColumn(row, weekdayTags, column) ==
  \A i \in 1..Len(weekdayTags) : Includes(Get(row, column), weekdayTags[i])

\* C17: with weekday tags, every record of the result has every weekday tag
\* in its home-visit weekday column when 在宅 is requested and in its
\* outpatient weekday column otherwise, and the other column plays no part:
\* every record that passed the location and tag filters, has the days in
\* that column and passes the drugstore filter is in the result, whatever
\* its other column holds.
C17_WeekdayColumn ==
  (op = "searchPharmacies" /\ Len(ret.base) = 1) =>
    LET c == extractConditions(arg.q)
        column == ColumnFor(ret.base[1].requestedTags)
        tagged == TagStage(LocationStage(arg.records, c.freeWords), c.requestedTags)
        Expected(row) ==
          /\ DaysInColumn(row, c.weekdayTags, column)
          /\ c.hasDrugstoreWord => IsDrugstore(row)
    IN  Len(c.weekdayTags) > 0 =>
          /\ \A i \in 1..Len(ret.base[1].result) :
               DaysInColumn(ret.base[1].result[i], c.weekdayTags, column)
          /\ \A i \in 1..Len(tagged) :
               Expected(tagged[i]) =>
                 Count(ret.base[1].result, tagged[i]) = Count(tagged, tagged[i])

\* 土曜 在宅 has returned a record whose home-visit column has 土曜 and whose
\* outpatient column has not, and has dropped a record with 在宅 whose
\* outpatient column has 土曜 and whose home-visit column has not.
C17_Witness ==
  /\ op = "searchPharmacies"
  /\ Len(ret.base) = 1
  /\ extractConditions(arg.q).weekdayTags = <<DOYOU>>
  /\ ret.base[1].requestedTags = <<ZAITAKU>>
  /\ arg.records = <<Corpus[1], Corpus[2]>>
  /\ ~Includes(Get(Corpus[1], K_WeekdayHome), DOYOU)
  /\ Includes(Get(Corpus[1], K_WeekdayOut), DOYOU)
  /\ ~Includes(Get(Corpus[2], K_WeekdayOut), DOYOU)
  /\ ret.base[1].result = <<Corpus[2]>>

(***************************************************************************)
(* Inputs of parseCsv, 4: lines, each terminator written as LF or as CR LF, *)
(* the last line with or without a terminator                              *)
(***************************************************************************)
\* How the text ends: no terminator, or one of the two.
FinalEols == {<<>>} \cup Eols

\* The lines, each followed by its terminator.
TerminatedLines(lines, eols) == Concat([i \in 1..Len(lines) |-> lines[i] \o eols[i]])

InitCsvEol ==
  /\ op = "parseCsv"
  /\ \E h \in CsvLineHeaders, lines \in SeqsUpTo(CsvDataLines, MaxDataRows) :
       \E eols \in [1..Len(lines) -> Eols], final \in FinalEols :
         LET all == <<h>> \o lines IN
         arg = [header |-> h, lines |-> lines, eols |-> eols, final |-> final,
                text |-> TerminatedLines(all, Append(eols, final)),
                lfText |-> TerminatedLines(all, [i \in 1..Len(all) |-> <<LF>>])]
  /\ ret = <<>>
  /\ done = FALSE

SpecCsvEol == InitCsvEol /\ [][NextCsv]_vars

\* C18: a text whose terminators between lines are each written as LF or as
\* CR LF, and whose last line has a terminator or none, parses to the same
\* records, and scans to as many rows, as the text with LF after every
\* line.
C18_EolEquivalence ==
  (op = "parseCsv" /\ done /\ "lfText" \in DOMAIN arg) =>
    /\ ret = parseCsv(arg.lfText)
    /\ Len(csvRows(arg.text)) = Len(csvRows(arg.lfText))

\* A header and two data lines, CR LF after the header, LF after the first
\* data line and nothing after the second, have been parsed to two records.
C18_Witness ==
  /\ op = "parseCsv"
  /\ done
  /\ "lfText" \in DOMAIN arg
  /\ arg.header = <<"x", COMMA, "y">>
  /\ arg.lines = << <<"x">>, <<"x", COMMA, "y">> >>
  /\ arg.eols = << <<CR, LF>>, <<LF>> >>
  /\ arg.final = <<>>
  /\ Len(ret) = 2

(***************************************************************************)
(* searchPharmacies invoked on queries that name drugstores, the drugstore *)
(* word written apart from the word before it or joined to it              *)
(***************************************************************************)
\* The first word of a query: 月曜 土曜 呉羽 婦中町, or no word
DrugstoreQueryHeads ==
  { <<>>, <<"Getsu", "You">>, <<"Do", "You">>, <<"Kure", "Hane">>, <<"Fujin", "Naka", "Town">> }

\* The second word: ドラッグストア ドラッグ 抗原, or no word
DrugstoreQueryTails ==
  { <<>>, <<"DO", "RA", "XTSU", "GU", "SU", "TO", "A">>, <<"DO", "RA", "XTSU", "GU">>, <<"Kou", "Gen">> }

InitDrugstore ==
  /\ op = "searchPharmacies"
  /\ \E rs \in RecordLists, a \in DrugstoreQueryHeads,
        b \in DrugstoreQueryTails, gap \in WordGaps :
       arg = [records |-> rs, a |-> a, gap |-> gap, b |-> b, q |-> a \o gap \o b]
  /\ ret = [base |-> <<>>, more |-> <<>>]
  /\ done = FALSE

NextDrugstore == SearchCall

SpecDrugstore == InitDrugstore /\ [][NextDrugstore]_vars

\* The name of the record contains a brand of the list of drugstore chains.
HasChainBrand(row) ==
  \E brand \in DRUGSTORE_CHAINS : Includes(Get(row, K_Name), brand)

\* The drugstore filter as it is to act on the query, given whether the
\* query asks for drugstores: when it does the flag is set and every record
\* of the result has a chain brand in its name; when it does not the flag is
\* not set and the result holds every record the location, tag and weekday
\* filters keep.
DrugstoreFilterActs(asksForDrugstores) ==
  LET c == extractConditions(arg.q)
      others == WeekdayStage(
                  TagStage(LocationStage(arg.records, c.freeWords), c.requestedTags),
                  c.weekdayTags, ZAITAKU \in Range(c.requestedTags))
  IN  /\ asksForDrugstores =>
           /\ c.hasDrugstoreWord
           /\ \A i \in 1..Len(ret.base[1].result) : HasChainBrand(ret.base[1].result[i])
      /\ ~asksForDrugstores =>
           /\ ~c.hasDrugstoreWord
           /\ Len(ret.base[1].result) = Len(others)
           /\ \A i \in 1..Len(others) :
                Count(ret.base[1].result, others[i]) = Count(others, others[i])

C20_WeekdayWithHomeVisit ==
  (/\ op = "extractConditions"
   /\ arg.a \in WeekdayKeywords
   /\ arg.b = ZAITAKU
   /\ ret.conditions # <<>>) =>
    /\ ret.conditions[1].weekdayTags = <<CanonicalDay(arg.a)>>
    /\ ret.conditions[1].requestedTags = <<ZAITAKU>>
    /\ ColumnFor(ret.conditions[1].requestedTags) = K_WeekdayHome


(***************************************************************************)
(* extractConditions invoked on the keywords of the service-tag taxonomy   *)
(***************************************************************************)
\* The keywords of the service-tag table.
TaxonomyKeywords ==
  UNION {Range(SERVICE_TAGS[i].keywords) : i \in 1..Len(SERVICE_TAGS)}

\* The query is one keyword of the service-tag table, as it is written there.
InitTaxonomy ==
  /\ op = "extractConditions"
  /\ \E k \in TaxonomyKeywords :
       arg = [a |-> k, gap |-> <<>>, b |-> <<>>, q |-> k]
  /\ ret = [words |-> <<>>, conditions |-> <<>>]
  /\ done = FALSE

SpecTaxonomy == InitTaxonomy /\ [][NextConditions]_vars

\* C21: for every entry of the service-tag table and every keyword of the
\* entry, extractConditions on the keyword returns requested tags that
\* contain the tag of the entry.
C21_TaxonomyReachable ==
  (op = "extractConditions" /\ ret.conditions # <<>>) =>
    \A i \in 1..Len(SERVICE_TAGS) :
      arg.q \in Range(SERVICE_TAGS[i].keywords) =>
        SERVICE_TAGS[i].tag \in Range(ret.conditions[1].requestedTags)


(***************************************************************************)
(* searchPharmacies and the caller's array of records                      *)
(***************************************************************************)
\* Whether the array "filtered" that reaches the sort is the caller's array
\* itself: filterOnce returns its argument when there is no free word, and
\* each later stage makes a new array (Array.prototype.filter) only when
\* its condition is asked for.
FilteredIsRecords(c) ==
  /\ Len(c.freeWords) = 0
  /\ Len(c.requestedTags) = 0
  /\ Len(c.weekdayTags) = 0
  /\ ~c.hasDrugstoreWord

\* Mutant of SortsCopy: filtered.sort(...), the sort in place.
SortsCopy_InPlace == FALSE

\* [...filtered].sort(...): Array.prototype.sort orders, in place, the copy
\* the spread makes.
SortsCopy == TRUE

\* The caller's array once searchPharmacies has returned sorted: the only
\* write of the function is the sort, and it reaches the caller's array when
\* it is done in place on an array that is the caller's.
RecordsAfterSearch(records, c, sorted) ==
  IF ~SortsCopy /\ FilteredIsRecords(c) THEN sorted ELSE records

\* The longest list of records of a call.
MaxFrameRecords == 3

\* Queries: none, 薬局 (no word is left of it), 呉羽, 在宅, 土曜,
\* 婦中町 抗原, ドラッグストア
FrameQueries ==
  { <<>>,
    <<"Yaku", "Kyoku">>,
    <<"Kure", "Hane">>,
    <<"Zai", "Taku">>,
    <<"Do", "You">>,
    <<"Fujin", "Naka", "Town", " ", "Kou", "Gen">>,
    <<"DO", "RA", "XTSU", "GU", "SU", "TO", "A">> }

\* The caller holds a list of rows of the sheet, in any order and with
\* repetitions; "before" keeps what the list was when the call was made.
InitFrame ==
  /\ op = "searchPharmacies"
  /\ \E rs \in SeqsUpTo(Range(Corpus), MaxFrameRecords), q \in FrameQueries :
       arg = [records |-> rs, before |-> rs, q |-> q]
  /\ ret = <<>>
  /\ done = FALSE

\* const { result, requestedTags, freeWords } = searchPharmacies(records, q)
SearchFrameCall ==
  /\ op = "searchPharmacies"
  /\ ~done
  /\ \E out \in searchPharmacies(arg.records, arg.q) :
       /\ ret' = <<out>>
       /\ arg' = [arg EXCEPT !.records =
                    RecordsAfterSearch(arg.records, extractConditions(arg.q),
                                       out.result)]
  /\ done' = TRUE
  /\ UNCHANGED op

NextFrame == SearchFrameCall

SpecFrame == InitFrame /\ [][NextFrame]_vars

\* C22: the result of searchPharmacies holds no record more often than the
\* caller's list held it (so every record of the result is a record of the
\* list, as it was), and the caller's list is, after the call, what it was
\* before the call, in content and in order.
C22_SelectsAndReorders ==
  (op = "searchPharmacies" /\ done) =>
    /\ \A x \in Range(ret[1].result) :
         Count(ret[1].result, x) <= Count(arg.before, x)
    /\ arg.records = arg.before

\* A call with no condition, on a list that holds one record twice and is
\* not in the order of the sort: the result is the whole list in another
\* order.
C22_Witness ==
  /\ op = "searchPharmacies"
  /\ done
  /\ "before" \in DOMAIN arg
  /\ FilteredIsRecords(extractConditions(arg.q))
  /\ Len(arg.before) = MaxFrameRecords
  /\ \E i, j \in 1..Len(arg.before) : i # j /\ arg.before[i] = arg.before[j]
  /\ Len(ret[1].result) = Len(arg.before)
  /\ ret[1].result # arg.before

\* A call that selects: a record of the list is not in the result, one that
\* the list holds twice is in it twice.
C22_WitnessSelection ==
  /\ op = "searchPharmacies"
  /\ done
  /\ "before" \in DOMAIN arg
  /\ \E x \in Range(arg.before) : x \notin Range(ret[1].result)
  /\ \E x \in Range(ret[1].result) : Count(ret[1].result, x) = 2

============================================================================
